---- MODULE Spec2Model ----
(***************************************************************************)
(* DarkForge candidate generation engine (modules/pattern_generator.py):   *)
(* field derivation, the template catalog, the base candidate builder,     *)
(* the transformation pipeline and the aggregating fold.                    *)
(*                                                                         *)
(* Python strings are sequences of one-character strings; every other      *)
(* Python value carries its type tag, so that str(), format() and the      *)
(* truth test of `x if c else y` / `a or b` do what Python does.           *)
(***************************************************************************)
EXTENDS Integers, Sequences, FiniteSets, TLC

(* ------------------------------ Python values ------------------------ *)
StrV(s) == [t |-> "str", s |-> s, i |-> 0, e |-> ""]
IntV(n) == [t |-> "int", s |-> <<>>, i |-> n, e |-> ""]
NoneV == [t |-> "none", s |-> <<>>, i |-> 0, e |-> ""]
ListV(l) == [t |-> "list", s |-> l, i |-> 0, e |-> ""]
\* a raised exception, travelling in place of the value of an expression
Exc(name) == [t |-> "exc", s |-> <<>>, i |-> 0, e |-> name]
IsExc(v) == v.t = "exc"

\* bool(v)
Truthy(v) ==
    CASE v.t = "str" -> v.s # <<>>
      [] v.t = "list" -> v.s # <<>>
      [] v.t = "int" -> v.i # 0
      [] OTHER -> FALSE

\* a or b
PyOr(a, b) == IF Truthy(a) THEN a ELSE b

Min(a, b) == IF a < b THEN a ELSE b
Max(a, b) == IF a > b THEN a ELSE b

(* ------------------------------ characters --------------------------- *)
LowerAlpha == <<"a","b","c","d","e","f","g","h","i","j","k","l","m",
                "n","o","p","q","r","s","t","u","v","w","x","y","z">>
UpperAlpha == <<"A","B","C","D","E","F","G","H","I","J","K","L","M",
                "N","O","P","Q","R","S","T","U","V","W","X","Y","Z">>
Digits == <<"0","1","2","3","4","5","6","7","8","9">>

IndexIn(c, alpha) == IF \E k \in DOMAIN alpha : alpha[k] = c
                     THEN CHOOSE k \in DOMAIN alpha : alpha[k] = c
                     ELSE 0

UpperChar(c) == LET k == IndexIn(c, LowerAlpha) IN IF k = 0 THEN c ELSE UpperAlpha[k]
LowerChar(c) == LET k == IndexIn(c, UpperAlpha) IN IF k = 0 THEN c ELSE LowerAlpha[k]

\* s.upper(), s.lower(), s.capitalize(), s[::-1] on the characters
UpperS(s) == [k \in DOMAIN s |-> UpperChar(s[k])]
LowerS(s) == [k \in DOMAIN s |-> LowerChar(s[k])]
CapitalizeS(s) == [k \in DOMAIN s |-> IF k = 1 THEN UpperChar(s[k]) ELSE LowerChar(s[k])]
ReverseS(s) == [k \in DOMAIN s |-> s[Len(s) + 1 - k]]

\* s.replace(a, b) for one-character a and b
ReplaceS(s, a, b) == [k \in DOMAIN s |-> IF s[k] = a THEN b ELSE s[k]]

\* str(n) for an int n
RECURSIVE NatDigits(_)
NatDigits(n) == IF n < 10 THEN <<Digits[n + 1]>>
                ELSE NatDigits(n \div 10) \o <<Digits[(n % 10) + 1]>>
IntStr(n) == IF n < 0 THEN <<"-">> \o NatDigits(0 - n) ELSE NatDigits(n)

\* format(n, "02d"): zero-padded to width 2, the sign counted in the width
\* format(n, "d"): no padding
Pad02Unpadded(n) == IntStr(n)
Pad02(n) == LET d == IntStr(n) IN
            IF Len(d) >= 2 THEN d ELSE <<"0">> \o d

(* ------------------------------ str operations ----------------------- *)
\* v[:k]
SliceTo(v, k) == IF v.t = "str" THEN StrV(SubSeq(v.s, 1, Min(k, Len(v.s))))
                 ELSE IF IsExc(v) THEN v ELSE Exc("TypeError")
\* v[-k:]
SliceLast(v, k) == IF v.t = "str" THEN StrV(SubSeq(v.s, Max(1, Len(v.s) - k + 1), Len(v.s)))
                   ELSE IF IsExc(v) THEN v ELSE Exc("TypeError")
\* v[a:b] for 0 <= a <= b
SliceMid(v, a, b) == IF v.t = "str" THEN StrV(SubSeq(v.s, a + 1, Min(b, Len(v.s))))
                     ELSE IF IsExc(v) THEN v ELSE Exc("TypeError")
\* v[1:-1]
SliceInner(v) == IF v.t = "str" THEN StrV(SubSeq(v.s, 2, Len(v.s) - 1))
                 ELSE IF IsExc(v) THEN v ELSE Exc("TypeError")
\* v[::-1]
SliceRev(v) == IF v.t = "str" THEN StrV(ReverseS(v.s))
               ELSE IF IsExc(v) THEN v ELSE Exc("TypeError")
\* v[0] and v[-1]: IndexError on the empty string (or the empty list)
First(v) == IF v.t = "str" THEN (IF v.s = <<>> THEN Exc("IndexError") ELSE StrV(<<v.s[1]>>))
            ELSE IF v.t = "list" THEN (IF v.s = <<>> THEN Exc("IndexError") ELSE StrV(v.s[1]))
            ELSE IF IsExc(v) THEN v ELSE Exc("TypeError")
Last(v) == IF v.t = "str" THEN (IF v.s = <<>> THEN Exc("IndexError") ELSE StrV(<<v.s[Len(v.s)]>>))
           ELSE IF IsExc(v) THEN v ELSE Exc("TypeError")
\* v.upper(), v.lower(), v.capitalize(): str methods, absent on None and int
Upper(v) == IF v.t = "str" THEN StrV(UpperS(v.s))
            ELSE IF IsExc(v) THEN v ELSE Exc("AttributeError")
Lower(v) == IF v.t = "str" THEN StrV(LowerS(v.s))
            ELSE IF IsExc(v) THEN v ELSE Exc("AttributeError")
Capitalize(v) == IF v.t = "str" THEN StrV(CapitalizeS(v.s))
                 ELSE IF IsExc(v) THEN v ELSE Exc("AttributeError")
\* len(v)
PyLen(v) == IF v.t \in {"str", "list"} THEN Len(v.s) ELSE 0

\* repr of a list of str, as str() and format() render it
RECURSIVE ListRepr(_)
ListRepr(l) == IF l = <<>> THEN <<>>
               ELSE <<"'">> \o Head(l) \o <<"'">>
                    \o (IF Len(l) > 1 THEN <<",", " ">> ELSE <<>>) \o ListRepr(Tail(l))

\* str(v): the text a value is rendered as
PyStr(v) ==
    CASE v.t = "str" -> v.s
      [] v.t = "int" -> IntStr(v.i)
      [] v.t = "none" -> <<"N","o","n","e">>
      [] v.t = "list" -> <<"[">> \o ListRepr(v.s) \o <<"]">>

\* format(v, "") with an absent value rendered as no text
FormatPlainNoneEmpty(v) ==
    IF IsExc(v) THEN v ELSE IF v.t = "none" THEN StrV(<<>>) ELSE StrV(PyStr(v))

\* format(v, ""), the plain placeholder {name}
FormatPlain(v) == IF IsExc(v) THEN v ELSE StrV(PyStr(v))

\* format(v, "02d"), the placeholder {name:02d}: ValueError for a str,
\* TypeError for None and for a list
Format02d(v) ==
    CASE v.t = "int" -> StrV(Pad02(v.i))
      [] v.t = "str" -> Exc("ValueError")
      [] v.t = "exc" -> v
      [] OTHER -> Exc("TypeError")

(* ------------------------------ dict --------------------------------- *)
\* data.get(k, default): the default only for a key that is not there
Get(data, k, default) == IF k \in DOMAIN data THEN data[k] ELSE default
\* data[k]: KeyError for a key that is not there
Item(data, k) == IF k \in DOMAIN data THEN data[k] ELSE Exc("KeyError")

(* ------------------------------ the template catalog ------------------ *)
\* the parts of a template: literal text, {name} and {name:02d}
L(text) == [k |-> "lit", n |-> "", s |-> text]
F(name) == [k |-> "fld", n |-> name, s |-> <<>>]
D02(name) == [k |-> "02d", n |-> name, s |-> <<>>]

ALGORITHM_TEMPLATE == <<
    \* Basic Name Combinations
    <<F("first_name"), F("last_name")>>,
    <<F("first_name_lower"), F("last_name_lower")>>,
    <<F("first_name_upper"), F("last_name_upper")>>,
    <<F("first_name_cap"), F("last_name_cap")>>,
    <<F("first_name"), L(<<"_">>), F("last_name")>>,
    <<F("first_name"), L(<<".">>), F("last_name")>>,
    <<F("first_name"), L(<<"-">>), F("last_name")>>,
    <<F("last_name"), F("first_name")>>,
    <<F("last_name"), L(<<"_">>), F("first_name")>>,
    <<F("last_name"), L(<<".">>), F("first_name")>>,
    <<F("last_name"), L(<<"-">>), F("first_name")>>,
    \* With Birth Year
    <<F("first_name"), F("birth_year")>>,
    <<F("last_name"), F("birth_year")>>,
    <<F("first_name"), F("birth_year_short")>>,
    <<F("last_name"), F("birth_year_short")>>,
    <<F("nickname"), F("birth_year")>>,
    <<F("nickname"), F("birth_year_short")>>,
    <<F("first_name"), F("last_name"), F("birth_year")>>,
    <<F("first_name"), F("last_name"), F("birth_year_short")>>,
    <<F("last_name"), F("first_name"), F("birth_year")>>,
    <<F("last_name"), F("first_name"), F("birth_year_short")>>,
    <<F("first_name"), L(<<"_">>), F("birth_year")>>,
    <<F("last_name"), L(<<"_">>), F("birth_year")>>,
    <<F("birth_year"), L(<<"_">>), F("first_name")>>,
    <<F("birth_year"), L(<<"_">>), F("last_name")>>,
    <<F("first_name"), F("birth_year_first"), F("birth_year_middle"), F("birth_year_last")>>,
    <<F("last_name"), F("birth_year_first"), F("birth_year_middle"), F("birth_year_last")>>,
    \* With Birth Month and Day
    <<F("first_name"), D02("birth_month"), F("birth_year")>>,
    <<F("last_name"), D02("birth_month"), F("birth_year")>>,
    <<F("first_name"), D02("birth_month"), F("birth_year_short")>>,
    <<F("last_name"), D02("birth_month"), F("birth_year_short")>>,
    <<F("first_name"), D02("birthdate"), F("birth_year")>>,
    <<F("last_name"), D02("birthdate"), F("birth_year")>>,
    <<F("first_name"), D02("birthdate"), D02("birth_month")>>,
    <<F("last_name"), D02("birthdate"), D02("birth_month")>>,
    <<F("first_name"), D02("birthdate"), D02("birth_month"), F("birth_year")>>,
    <<F("last_name"), D02("birthdate"), D02("birth_month"), F("birth_year")>>,
    <<F("first_name"), D02("birthdate"), D02("birth_month"), F("birth_year_short")>>,
    <<F("last_name"), D02("birthdate"), D02("birth_month"), F("birth_year_short")>>,
    \* With Pet Name
    <<F("first_name"), F("pet_name")>>,
    <<F("last_name"), F("pet_name")>>,
    <<F("pet_name"), F("first_name")>>,
    <<F("pet_name"), F("last_name")>>,
    <<F("pet_name"), D02("birthdate"), D02("birth_month")>>,
    <<F("pet_name"), F("birth_year")>>,
    <<F("pet_name"), F("birth_year_short")>>,
    <<F("pet_name"), L(<<"_">>), F("first_name")>>,
    <<F("pet_name"), L(<<"_">>), F("last_name")>>,
    <<F("first_name"), L(<<"_">>), F("pet_name")>>,
    <<F("last_name"), L(<<"_">>), F("pet_name")>>,
    \* Favorite Items
    <<F("first_name"), F("favorite_movie")>>,
    <<F("last_name"), F("favorite_movie")>>,
    <<F("first_name"), F("favorite_song")>>,
    <<F("last_name"), F("favorite_song")>>,
    <<F("first_name"), F("favorite_band")>>,
    <<F("last_name"), F("favorite_band")>>,
    <<F("first_name"), F("favorite_sport")>>,
    <<F("last_name"), F("favorite_sport")>>,
    <<F("first_name"), F("favorite_book")>>,
    <<F("last_name"), F("favorite_book")>>,
    <<F("first_name"), F("favorite_celebrity")>>,
    <<F("last_name"), F("favorite_celebrity")>>,
    <<F("first_name"), F("favorite_number")>>,
    <<F("last_name"), F("favorite_number")>>,
    <<F("first_name"), F("gamer_tag")>>,
    <<F("last_name"), F("gamer_tag")>>,
    <<F("gamer_tag"), F("first_name")>>,
    <<F("gamer_tag"), F("last_name")>>,
    <<F("gamer_tag"), F("birth_year")>>,
    <<F("gamer_tag"), F("birth_year_short")>>,
    \* With names and date formats
    <<F("first_name"), F("birthdate_str"), F("birth_month_str")>>,
    <<F("last_name"), F("birthdate_str"), F("birth_month_str")>>,
    <<F("first_name"), F("last_name"), F("birthdate_str"), F("birth_month_str")>>,
    <<F("last_name"), F("first_name"), F("birthdate_str"), F("birth_month_str")>>,
    \* Shortened name variants
    <<F("first_name_short_3"), F("last_name_short_3"), F("birth_year")>>,
    <<F("first_name_short_3"), F("last_name_short_3"), F("birth_year_short")>>,
    <<F("first_name_short_2"), F("last_name_short_2"), F("birth_year")>>,
    <<F("first_name_short_2"), F("last_name_short_2"), F("birth_year_short")>>,
    <<F("first_name_short_4"), F("last_name_short_4"), F("birth_year")>>,
    <<F("first_name_short_4"), F("last_name_short_4"), F("birth_year_short")>>,
    <<F("first_name_short_3"), L(<<"_">>), F("last_name_short_3")>>,
    <<F("first_name_short_2"), L(<<"_">>), F("last_name_short_2")>>,
    <<F("first_name_short_4"), L(<<"_">>), F("last_name_short_4")>>,
    \* Initial variants
    <<F("first_name_initial"), F("last_name_initial"), F("birth_year")>>,
    <<F("first_name_initial"), F("last_name_initial"), F("birth_year_short")>>,
    <<F("first_name_initial"), F("last_name")>>,
    <<F("first_name"), F("last_name_initial")>>,
    <<F("first_name_initial"), F("last_name"), F("birthdate_str"), F("birth_month_str")>>,
    <<F("last_name_initial"), F("first_name"), F("birthdate_str"), F("birth_month_str")>>,
    <<F("first_name"), F("last_name_initial"), F("birthdate_str"), F("birth_month_str")>>,
    <<F("last_name"), F("first_name_initial"), F("birthdate_str"), F("birth_month_str")>>,
    <<F("first_name_initial"), F("last_name_initial"), L(<<"_">>), F("birth_year")>>,
    <<F("first_name_initial"), F("last_name_initial"), L(<<"_">>), F("birth_year_short")>>,
    <<F("first_name_initial"), F("last_name_initial"), D02("birthdate"), D02("birth_month")>>,
    \* Name and Birthdate with Special Characters
    <<F("last_name"), L(<<"@">>), F("birth_year")>>,
    <<F("first_name"), L(<<"@">>), F("birth_year")>>,
    <<F("first_name"), F("last_name"), L(<<"@">>), F("birth_year")>>,
    <<F("birth_year"), L(<<"@">>), F("first_name")>>,
    <<F("first_name"), F("last_name_initial"), L(<<"@">>), F("birth_year")>>,
    <<F("last_name"), F("first_name_initial"), L(<<"@">>), F("birth_year")>>,
    <<F("first_name_initial"), F("last_name"), L(<<"@">>), F("birth_year")>>,
    <<F("last_name_initial"), F("first_name"), L(<<"@">>), F("birth_year")>>,
    <<F("first_name"), F("birth_year"), L(<<"!">>)>>,
    <<F("last_name"), F("birth_year"), L(<<"?">>)>>,
    <<F("first_name"), F("last_name"), L(<<"#">>)>>,
    <<F("birthdate_str"), F("birth_month_str"), F("birth_year"), L(<<"@">>)>>,
    <<F("pet_name"), F("birth_year"), L(<<"$">>)>>,
    <<F("first_name"), L(<<"#">>), F("last_name")>>,
    <<F("last_name"), L(<<"#">>), F("first_name")>>,
    <<F("first_name"), L(<<"#">>), F("birth_year")>>,
    <<F("last_name"), L(<<"#">>), F("birth_year")>>,
    <<F("first_name"), L(<<"*">>), F("last_name")>>,
    <<F("last_name"), L(<<"*">>), F("first_name")>>,
    <<F("first_name"), L(<<"*">>), F("birth_year")>>,
    <<F("last_name"), L(<<"*">>), F("birth_year")>>,
    <<F("first_name"), L(<<"$">>), F("last_name")>>,
    <<F("last_name"), L(<<"$">>), F("first_name")>>,
    <<F("first_name"), L(<<"$">>), F("birth_year")>>,
    <<F("last_name"), L(<<"$">>), F("birth_year")>>,
    <<F("first_name"), L(<<"&">>), F("last_name")>>,
    <<F("last_name"), L(<<"&">>), F("first_name")>>,
    <<F("first_name"), L(<<"&">>), F("birth_year")>>,
    <<F("last_name"), L(<<"&">>), F("birth_year")>>,
    \* Personal Relationships
    <<F("father_name"), F("birth_year")>>,
    <<F("mother_name"), F("birth_year")>>,
    <<F("pet_name"), F("birth_year")>>,
    <<F("first_name"), F("father_name"), F("birth_year")>>,
    <<F("last_name"), F("mother_name"), F("birth_year")>>,
    <<F("pet_name"), F("first_name"), F("birth_year")>>,
    <<F("spouse_name"), F("birth_year")>>,
    <<F("first_name"), F("spouse_name"), F("birth_year")>>,
    <<F("last_name"), F("spouse_name"), F("birth_year")>>,
    <<F("child_name"), F("birth_year")>>,
    <<F("first_name"), F("child_name"), F("birth_year")>>,
    <<F("last_name"), F("child_name"), F("birth_year")>>,
    <<F("father_name_initial"), F("mother_name_initial"), F("birth_year")>>,
    <<F("pet_name"), F("first_name_initial"), F("last_name_initial"), F("birth_year")>>,
    <<F("spouse_name"), F("child_name"), F("birth_year")>>,
    <<F("father_name"), L(<<"_">>), F("birth_year")>>,
    <<F("mother_name"), L(<<"_">>), F("birth_year")>>,
    <<F("spouse_name"), L(<<"_">>), F("birth_year")>>,
    <<F("child_name"), L(<<"_">>), F("birth_year")>>,
    <<F("father_name"), F("birth_year_short")>>,
    <<F("mother_name"), F("birth_year_short")>>,
    <<F("spouse_name"), F("birth_year_short")>>,
    <<F("child_name"), F("birth_year_short")>>,
    \* With Family Member Initials
    <<F("father_name_initial"), F("mother_name_initial"), F("spouse_name_initial")>>,
    <<F("father_name_initial"), F("mother_name_initial"), F("child_name_initial")>>,
    <<F("father_name_initial"), F("mother_name_initial"), F("pet_name_initial")>>,
    <<F("father_name_initial"), F("mother_name_initial"), F("first_name_initial")>>,
    <<F("father_name_initial"), F("mother_name_initial"), F("last_name_initial")>>,
    <<F("father_name_initial"), F("mother_name_initial"), F("birth_year")>>,
    <<F("father_name_initial"), F("mother_name_initial"), F("birth_year_short")>>,
    <<F("father_name_initial"), F("mother_name_initial"), D02("birthdate"), D02("birth_month")>>,
    \* Creative Combinations
    <<F("first_name"), F("mother_name"), F("pet_name")>>,
    <<F("last_name"), F("father_name"), F("spouse_name")>>,
    <<F("first_name"), F("mother_name"), F("birth_year")>>,
    <<F("last_name"), F("father_name"), F("birth_year")>>,
    <<F("pet_name"), F("first_name"), F("birthdate_str"), F("birth_month_str")>>,
    <<F("spouse_name"), F("last_name"), F("birth_year")>>,
    <<F("child_name"), F("first_name"), F("birth_year")>>,
    <<F("first_name"), F("last_name"), F("pet_name"), F("birth_year")>>,
    <<F("first_name"), F("mother_name"), F("birth_year_short")>>,
    <<F("last_name"), F("father_name"), F("birth_year_short")>>,
    <<F("pet_name"), L(<<"_">>), F("first_name"), L(<<"_">>), F("birth_year")>>,
    <<F("spouse_name"), L(<<"_">>), F("last_name"), L(<<"_">>), F("birth_year")>>,
    <<F("first_name"), L(<<"_">>), F("pet_name"), L(<<"_">>), F("birth_year")>>,
    <<F("last_name"), L(<<"_">>), F("spouse_name"), L(<<"_">>), F("birth_year")>>,
    \* With Phone Number Parts
    <<F("first_name"), F("phone_last4")>>,
    <<F("last_name"), F("phone_last4")>>,
    <<F("first_name"), L(<<"_">>), F("phone_last4")>>,
    <<F("last_name"), L(<<"_">>), F("phone_last4")>>,
    <<F("phone_last4"), L(<<"_">>), F("first_name")>>,
    <<F("phone_last4"), L(<<"_">>), F("last_name")>>,
    <<F("first_name"), F("phone_first3"), F("phone_last4")>>,
    <<F("last_name"), F("phone_first3"), F("phone_last4")>>,
    <<F("phone_first3"), F("first_name"), F("phone_last4")>>,
    <<F("phone_first3"), F("last_name"), F("phone_last4")>>,
    <<F("first_name_initial"), F("last_name_initial"), F("phone_last4")>>,
    <<F("first_name"), F("phone_middle"), F("birth_year_short")>>,
    <<F("last_name"), F("phone_middle"), F("birth_year_short")>>,
    \* With Location Information
    <<F("first_name"), F("residence_short")>>,
    <<F("last_name"), F("residence_short")>>,
    <<F("first_name"), L(<<"_">>), F("residence_short")>>,
    <<F("last_name"), L(<<"_">>), F("residence_short")>>,
    <<F("residence_short"), L(<<"_">>), F("first_name")>>,
    <<F("residence_short"), L(<<"_">>), F("last_name")>>,
    <<F("first_name"), F("birthplace_short")>>,
    <<F("last_name"), F("birthplace_short")>>,
    <<F("first_name"), L(<<"_">>), F("birthplace_short")>>,
    <<F("last_name"), L(<<"_">>), F("birthplace_short")>>,
    <<F("birthplace_short"), L(<<"_">>), F("first_name")>>,
    <<F("birthplace_short"), L(<<"_">>), F("last_name")>>,
    <<F("residence_short"), F("birth_year")>>,
    <<F("residence_short"), F("birth_year_short")>>,
    <<F("birthplace_short"), F("birth_year")>>,
    <<F("birthplace_short"), F("birth_year_short")>>,
    \* With Social Media IDs
    <<F("first_name"), F("social_id")>>,
    <<F("last_name"), F("social_id")>>,
    <<F("social_id"), F("first_name")>>,
    <<F("social_id"), F("last_name")>>,
    <<F("social_id"), F("birth_year")>>,
    <<F("social_id"), F("birth_year_short")>>,
    <<F("social_id"), L(<<"_">>), F("first_name")>>,
    <<F("social_id"), L(<<"_">>), F("last_name")>>,
    <<F("first_name"), L(<<"_">>), F("social_id")>>,
    <<F("last_name"), L(<<"_">>), F("social_id")>>,
    \* With Device Names
    <<F("first_name"), F("device_name")>>,
    <<F("last_name"), F("device_name")>>,
    <<F("device_name"), F("first_name")>>,
    <<F("device_name"), F("last_name")>>,
    <<F("device_name"), F("birth_year")>>,
    <<F("device_name"), F("birth_year_short")>>,
    <<F("device_name"), L(<<"_">>), F("first_name")>>,
    <<F("device_name"), L(<<"_">>), F("last_name")>>,
    <<F("first_name"), L(<<"_">>), F("device_name")>>,
    <<F("last_name"), L(<<"_">>), F("device_name")>>,
    \* With Simple Sequences
    <<F("first_name"), L(<<"1","2","3","4","5","6">>)>>,
    <<F("last_name"), L(<<"1","2","3","4","5","6">>)>>,
    <<L(<<"1","2","3","4","5","6">>), F("first_name")>>,
    <<L(<<"1","2","3","4","5","6">>), F("last_name")>>,
    <<F("first_name"), L(<<"1","2","3">>)>>,
    <<F("last_name"), L(<<"1","2","3">>)>>,
    <<L(<<"1","2","3">>), F("first_name")>>,
    <<L(<<"1","2","3">>), F("last_name")>>,
    <<F("first_name"), L(<<"1","2","3","4","5">>)>>,
    <<F("last_name"), L(<<"1","2","3","4","5">>)>>,
    <<L(<<"1","2","3","4","5">>), F("first_name")>>,
    <<L(<<"1","2","3","4","5">>), F("last_name")>>,
    <<F("first_name"), L(<<"1","2","3","4">>)>>,
    <<F("last_name"), L(<<"1","2","3","4">>)>>,
    <<L(<<"1","2","3","4">>), F("first_name")>>,
    <<L(<<"1","2","3","4">>), F("last_name")>>,
    <<F("birth_year"), L(<<"a","b","c","d","e","f">>)>>,
    <<L(<<"a","b","c","d","e","f">>), F("birth_year")>>,
    <<F("first_name"), L(<<"p","a","s","s","w","o","r","d">>)>>,
    <<L(<<"p","a","s","s","w","o","r","d">>), F("first_name")>>,
    <<F("last_name"), L(<<"p","a","s","s","w","o","r","d">>)>>,
    <<L(<<"p","a","s","s","w","o","r","d">>), F("last_name")>>,
    <<F("first_name"), L(<<"q","w","e","r","t","y">>)>>,
    <<F("last_name"), L(<<"q","w","e","r","t","y">>)>>,
    <<L(<<"q","w","e","r","t","y">>), F("first_name")>>,
    <<L(<<"q","w","e","r","t","y">>), F("last_name")>>,
    <<F("first_name"), L(<<"a","b","c","1","2","3">>)>>,
    <<F("last_name"), L(<<"a","b","c","1","2","3">>)>>,
    <<L(<<"a","b","c","1","2","3">>), F("first_name")>>,
    <<L(<<"a","b","c","1","2","3">>), F("last_name")>>,
    \* Common Words and Combinations
    <<F("first_name"), L(<<"w","e","l","c","o","m","e">>)>>,
    <<F("last_name"), L(<<"w","e","l","c","o","m","e">>)>>,
    <<L(<<"w","e","l","c","o","m","e">>), F("first_name")>>,
    <<L(<<"w","e","l","c","o","m","e">>), F("last_name")>>,
    <<F("first_name"), L(<<"d","r","a","g","o","n">>)>>,
    <<F("last_name"), L(<<"d","r","a","g","o","n">>)>>,
    <<L(<<"d","r","a","g","o","n">>), F("first_name")>>,
    <<L(<<"d","r","a","g","o","n">>), F("last_name")>>,
    <<F("first_name"), L(<<"m","o","n","k","e","y">>)>>,
    <<F("last_name"), L(<<"m","o","n","k","e","y">>)>>,
    <<L(<<"m","o","n","k","e","y">>), F("first_name")>>,
    <<L(<<"m","o","n","k","e","y">>), F("last_name")>>,
    <<F("first_name"), L(<<"f","o","o","t","b","a","l","l">>)>>,
    <<F("last_name"), L(<<"f","o","o","t","b","a","l","l">>)>>,
    <<L(<<"f","o","o","t","b","a","l","l">>), F("first_name")>>,
    <<L(<<"f","o","o","t","b","a","l","l">>), F("last_name")>>,
    <<F("first_name"), L(<<"b","a","s","e","b","a","l","l">>)>>,
    <<F("last_name"), L(<<"b","a","s","e","b","a","l","l">>)>>,
    <<L(<<"b","a","s","e","b","a","l","l">>), F("first_name")>>,
    <<L(<<"b","a","s","e","b","a","l","l">>), F("last_name")>>,
    <<F("first_name"), L(<<"s","u","p","e","r","m","a","n">>)>>,
    <<F("last_name"), L(<<"s","u","p","e","r","m","a","n">>)>>,
    <<L(<<"s","u","p","e","r","m","a","n">>), F("first_name")>>,
    <<L(<<"s","u","p","e","r","m","a","n">>), F("last_name")>>,
    <<F("first_name"), L(<<"b","a","t","m","a","n">>)>>,
    <<F("last_name"), L(<<"b","a","t","m","a","n">>)>>,
    <<L(<<"b","a","t","m","a","n">>), F("first_name")>>,
    <<L(<<"b","a","t","m","a","n">>), F("last_name")>>,
    \* Birthdate Variations
    <<F("birth_month_str"), L(<<"/">>), F("birthdate_str"), L(<<"/">>), F("birth_year")>>,
    <<F("birthdate_str"), L(<<"-">>), F("birth_month_str"), L(<<"-">>), F("birth_year")>>,
    <<F("birth_year"), L(<<"-">>), F("birth_month_str"), L(<<"-">>), F("birthdate_str")>>,
    <<F("first_name"), F("birth_month_str"), L(<<"/">>), F("birthdate_str")>>,
    <<F("last_name"), F("birth_year"), L(<<"-">>), F("birth_month_str")>>,
    <<F("birth_year"), F("first_name"), F("last_name")>>,
    <<F("birth_month_str"), F("birthdate_str"), F("birth_year")>>,
    <<F("birth_year"), F("birth_month_str"), F("birthdate_str")>>,
    <<F("birthdate_str"), F("birth_month_str"), L(<<"-">>), F("birth_year")>>,
    <<F("birth_month_str"), L(<<"-">>), F("birthdate_str"), L(<<"-">>), F("birth_year")>>,
    <<F("birth_year"), F("birth_month_str"), L(<<"-">>), F("birthdate_str")>>,
    <<F("first_name"), F("birth_month_str"), F("birthdate_str"), F("birth_year_short")>>,
    <<F("last_name"), F("birth_month_str"), F("birthdate_str"), F("birth_year_short")>>,
    \* Reversed Strings
    <<F("first_name_rev"), F("birth_year")>>,
    <<F("last_name_rev"), F("birth_year")>>,
    <<F("first_name"), F("last_name_rev"), F("birth_year")>>,
    <<F("first_name_rev"), F("last_name"), F("birth_year")>>,
    <<F("birth_year_rev"), F("first_name")>>,
    <<F("birth_year_rev"), F("last_name")>>,
    <<F("first_name"), F("birth_year_rev"), F("last_name")>>,
    <<F("first_name_rev"), F("birth_year_short")>>,
    <<F("last_name_rev"), F("birth_year_short")>>,
    <<F("first_name"), F("last_name_rev"), F("birth_year_short")>>,
    <<F("first_name_rev"), F("last_name"), F("birth_year_short")>>,
    <<F("birth_year_rev"), F("first_name_rev")>>,
    <<F("birth_year_rev"), F("last_name_rev")>>,
    <<F("first_name_rev"), L(<<"_">>), F("last_name_rev")>>,
    <<F("first_name_rev"), L(<<"_">>), F("last_name")>>,
    <<F("first_name"), L(<<"_">>), F("last_name_rev")>>,
    \* With Special Characters (Middle)
    <<F("first_name"), L(<<"!">>), F("last_name"), F("birth_year")>>,
    <<F("last_name"), L(<<"@">>), F("first_name"), F("birth_year")>>,
    <<F("birth_year"), L(<<"#">>), F("first_name"), F("last_name")>>,
    <<F("first_name"), F("last_name"), L(<<"$">>), F("birthdate_str"), F("birth_month_str")>>,
    <<F("birthdate_str"), F("birth_month_str"), L(<<"%">>), F("first_name"), F("last_name")>>,
    <<F("first_name"), L(<<"!">>), F("last_name")>>,
    <<F("last_name"), L(<<"@">>), F("first_name")>>,
    <<F("first_name"), L(<<"#">>), F("birth_year")>>,
    <<F("last_name"), L(<<"$">>), F("birth_year")>>,
    <<F("birth_year"), L(<<"%">>), F("first_name")>>,
    <<F("birth_year"), L(<<"^">>), F("last_name")>>,
    <<F("first_name"), L(<<"&">>), F("last_name"), F("birth_year")>>,
    <<F("last_name"), L(<<"*">>), F("first_name"), F("birth_year")>>,
    <<F("birth_year"), L(<<"(">>), F("first_name"), F("last_name")>>,
    <<F("first_name"), F("last_name"), L(<<")">>), F("birthdate_str"), F("birth_month_str")>>,
    <<F("birthdate_str"), F("birth_month_str"), L(<<"-">>), F("first_name"), F("last_name")>>,
    <<F("first_name"), L(<<"+">>), F("last_name")>>,
    <<F("last_name"), L(<<"=">>), F("first_name")>>,
    <<F("first_name"), L(<<"/","/">>), F("birth_year")>>,
    <<F("last_name"), L(<<"\\">>), F("birth_year")>>,
    <<F("birth_year"), L(<<"|">>), F("first_name")>>,
    <<F("birth_year"), L(<<"~">>), F("last_name")>>,
    \* Extended Number Variations
    <<F("first_name"), L(<<"0","0">>)>>,
    <<F("last_name"), L(<<"0","0">>)>>,
    <<F("first_name"), L(<<"0","1">>)>>,
    <<F("last_name"), L(<<"0","1">>)>>,
    <<F("first_name"), L(<<"0","2">>)>>,
    <<F("last_name"), L(<<"0","2">>)>>,
    <<F("first_name"), L(<<"6","9">>)>>,
    <<F("last_name"), L(<<"6","9">>)>>,
    <<F("first_name"), L(<<"0","0","7">>)>>,
    <<F("last_name"), L(<<"0","0","7">>)>>,
    <<F("first_name"), L(<<"7","7","7">>)>>,
    <<F("last_name"), L(<<"7","7","7">>)>>,
    <<F("first_name"), L(<<"1","1","1">>)>>,
    <<F("last_name"), L(<<"1","1","1">>)>>,
    <<F("first_name"), L(<<"2","2","2">>)>>,
    <<F("last_name"), L(<<"2","2","2">>)>>,
    <<F("first_name"), L(<<"3","3","3">>)>>,
    <<F("last_name"), L(<<"3","3","3">>)>>,
    <<F("first_name"), L(<<"6","6","6">>)>>,
    <<F("last_name"), L(<<"6","6","6">>)>>,
    <<F("first_name"), L(<<"9","9","9">>)>>,
    <<F("last_name"), L(<<"9","9","9">>)>>,
    <<F("first_name"), L(<<"1","2","3","4","5","6","7">>)>>,
    <<F("last_name"), L(<<"1","2","3","4","5","6","7">>)>>,
    <<F("first_name"), L(<<"7","6","5","4","3","2","1">>)>>,
    <<F("last_name"), L(<<"7","6","5","4","3","2","1">>)>>,
    <<F("first_name"), L(<<"1","1","1","1","1">>)>>,
    <<F("last_name"), L(<<"1","1","1","1","1">>)>>,
    <<F("first_name"), L(<<"2","2","2","2","2">>)>>,
    <<F("last_name"), L(<<"2","2","2","2","2">>)>>,
    <<F("first_name"), L(<<"5","5","5","5","5">>)>>,
    <<F("last_name"), L(<<"5","5","5","5","5">>)>>,
    <<F("first_name"), L(<<"0","0","0","0">>)>>,
    <<F("last_name"), L(<<"0","0","0","0">>)>>,
    <<F("first_name"), L(<<"0","1","2","3">>)>>,
    <<F("last_name"), L(<<"0","1","2","3">>)>>,
    <<F("first_name"), L(<<"6","7","8","9">>)>>,
    <<F("last_name"), L(<<"6","7","8","9">>)>>,
    \* Special Combinations
    <<F("first_name_initial"), F("last_name"), F("phone_last4")>>,
    <<F("last_name_initial"), F("first_name"), F("phone_last4")>>,
    <<F("first_name"), F("last_name_initial"), F("birth_year")>>,
    <<F("last_name"), F("first_name_initial"), F("birth_year")>>,
    <<F("first_name_initial"), F("last_name_initial"), F("birth_year"), F("phone_last4")>>,
    <<F("father_name_initial"), F("mother_name_initial"), F("first_name_initial"), F("last_name_initial")>>,
    <<F("first_name_short_2"), F("last_name_short_2"), F("birth_month_str"), F("birthdate_str")>>,
    <<F("birthplace_short"), F("residence_short"), F("birth_year_short")>>,
    <<F("device_name"), F("birth_year"), F("phone_last4")>>,
    <<F("social_id"), F("birth_year"), F("phone_last4")>>,
    <<F("pet_name_initial"), F("first_name_initial"), F("last_name_initial"), F("birth_year_short")>>,
    <<F("father_name_short_3"), F("mother_name_initial"), F("birth_year_short")>>,
    <<F("first_name"), L(<<"_">>), F("last_name"), L(<<"_">>), F("birth_year")>>,
    <<F("first_name"), L(<<".">>), F("last_name"), L(<<".">>), F("birth_year")>>,
    <<F("first_name"), L(<<"-">>), F("last_name"), L(<<"-">>), F("birth_year")>>,
    <<F("favorite_band"), F("birth_year")>>,
    <<F("favorite_song"), F("birth_year")>>,
    <<F("favorite_movie"), F("birth_year")>>,
    <<F("favorite_number"), F("first_name"), F("birth_year")>>,
    <<F("gamer_tag"), F("phone_last4")>>,
    <<F("social_id"), F("phone_last4")>>,
    <<F("pet_name"), L(<<"_">>), F("birth_year"), L(<<"_">>), F("phone_last4")>>,
    \* Very Common Patterns (Based on Real Leaks)
    <<L(<<"p","a","s","s","w","o","r","d","1","2","3">>)>>,
    <<L(<<"a","d","m","i","n","1","2","3">>)>>,
    <<L(<<"w","e","l","c","o","m","e","1","2","3">>)>>,
    <<L(<<"l","e","t","m","e","i","n","1","2","3">>)>>,
    <<L(<<"1","2","3","4","5","6","7","8","9">>)>>,
    <<L(<<"1","2","3","4","5","6","7","8">>)>>,
    <<L(<<"q","w","e","r","t","y","1","2","3">>)>>,
    <<L(<<"a","b","c","1","2","3","x","y","z">>)>>,
    <<L(<<"1","q","2","w","3","e","4","r">>)>>,
    <<L(<<"q","a","z","w","s","x","1","2","3">>)>>,
    <<L(<<"p","a","s","s","w","o","r","d","1","!">>)>>,
    <<L(<<"P","@","s","s","w","0","r","d">>)>>,
    <<L(<<"p","a","s","s","w","0","r","d">>)>>,
    <<L(<<"F","o","o","t","b","a","l","l","1","2","3">>)>>,
    <<L(<<"B","a","s","e","b","a","l","l","1","2","3">>)>>,
    <<L(<<"P","r","i","n","c","e","s","s","1","2","3">>)>>,
    <<L(<<"S","u","p","e","r","m","a","n","1","2","3">>)>>,
    <<L(<<"B","a","t","m","a","n","1","2","3">>)>>,
    <<L(<<"T","r","u","s","t","n","o","1">>)>>,
    <<L(<<"i","l","o","v","e","y","o","u","1","2","3">>)>>,
    <<L(<<"s","u","n","s","h","i","n","e","1","2","3">>)>>,
    <<L(<<"m","o","n","k","e","y","1","2","3">>)>>,
    <<L(<<"d","r","a","g","o","n","1","2","3">>)>>,
    <<L(<<"m","a","s","t","e","r","1","2","3">>)>>,
    <<L(<<"l","o","g","i","n","1","2","3">>)>>,
    <<L(<<"s","o","l","o","1","2","3">>)>>,
    <<L(<<"a","c","c","e","s","s","1","2","3">>)>>,
    <<L(<<"f","l","o","w","e","r","1","2","3">>)>>,
    <<L(<<"f","o","r","e","v","e","r","1","2","3">>)>>,
    <<L(<<"h","u","n","t","e","r","1","2","3">>)>>
>>

\* the field names the catalog refers to
TemplateFields(template) == {template[k].n : k \in {j \in DOMAIN template : template[j].k # "lit"}}
CatalogFields == UNION {TemplateFields(ALGORITHM_TEMPLATE[k]) : k \in DOMAIN ALGORITHM_TEMPLATE}

(* ------------------------------ compute_extra_fields ------------------ *)
\* the keys compute_extra_fields assigns, in the order of its statements
DerivedOrder == <<
    "birthdate_str", "birth_month_str", "birth_year_short", "birth_year_last",
    "birth_year_first", "birth_year_middle",
    "first_name_short_3", "last_name_short_3", "first_name_short_2", "last_name_short_2",
    "first_name_short_4", "last_name_short_4", "first_name_middle", "last_name_middle",
    "first_name_initial", "last_name_initial", "father_name_initial", "mother_name_initial",
    "spouse_name_initial", "child_name_initial", "pet_name_initial",
    "device_name", "social_id", "residence_short", "birthplace_short",
    "phone_last4", "phone_first3", "phone_middle",
    "first_name_rev", "last_name_rev", "birth_year_rev", "nickname",
    "favorite_movie", "favorite_book", "favorite_song", "favorite_band",
    "favorite_sport", "favorite_number", "favorite_celebrity",
    "first_name_lower", "last_name_lower", "first_name_upper", "last_name_upper",
    "first_name_cap", "last_name_cap" >>

EmptyStr == StrV(<<>>)

\* data[name][:k] if data[name] else ""
ShortOf(data, name, k) == IF Truthy(data[name]) THEN SliceTo(data[name], k) ELSE EmptyStr
\* data[name][:4] if data[name] and len(data[name]) >= 4 else data[name]
Short4Of(data, name) == IF Truthy(data[name]) /\ PyLen(data[name]) >= 4
                        THEN SliceTo(data[name], 4) ELSE data[name]
\* data[name][1:-1] if data[name] and len(data[name]) >= 3 else ""
MiddleOf(data, name) == IF Truthy(data[name]) /\ PyLen(data[name]) >= 3
                        THEN SliceInner(data[name]) ELSE EmptyStr
\* data[name][0].upper() if data[name] else ""
InitialOf(data, name) == IF Truthy(data[name]) THEN Upper(First(data[name])) ELSE EmptyStr
\* data[name][0].upper(), without the test `if data.get(name)`
OptInitialOfUnguarded(data, name) == Upper(First(data[name]))
\* data[name][0].upper() if data.get(name) else ""
OptInitialOf(data, name) == IF Truthy(Get(data, name, NoneV))
                            THEN Upper(First(data[name])) ELSE EmptyStr
\* data["device_names"][0] if data["device_names"] else ""
DeviceName(data) == IF Truthy(data["device_names"]) THEN First(data["device_names"])
                    ELSE EmptyStr
\* data.get("instagram_id", "") or data.get("facebook_id", "") or data.get("twitter_id", "")
SocialId(data) == PyOr(Get(data, "instagram_id", EmptyStr),
                       PyOr(Get(data, "facebook_id", EmptyStr),
                            Get(data, "twitter_id", EmptyStr)))
\* the slices taken whatever the length of the phone number
PhonePartUnchecked(data, long) == IF Truthy(data["phone_number"]) THEN long ELSE EmptyStr
\* the three phone parts: slices of a phone number of 10 or more characters,
\* the whole number when it is shorter, "" when it is empty
PhonePart(data, long) == IF Truthy(data["phone_number"])
                         THEN (IF PyLen(data["phone_number"]) >= 10 THEN long
                               ELSE data["phone_number"])
                         ELSE EmptyStr
\* data[name][::-1] if data[name] else ""
RevOf(data, name) == IF Truthy(data[name]) THEN SliceRev(data[name]) ELSE EmptyStr
\* if "nickname" not in data or data["nickname"] is None: data["nickname"] = ""
Nickname(data) == IF "nickname" \notin DOMAIN data \/ data["nickname"].t = "none"
                  THEN EmptyStr ELSE data["nickname"]
\* data.get(name, "") or ""
FavoriteOf(data, name) == PyOr(Get(data, name, EmptyStr), EmptyStr)
\* data[name].lower() / .upper() / .capitalize() if data[name] else ""
LowerOf(data, name) == IF Truthy(data[name]) THEN Lower(data[name]) ELSE EmptyStr
UpperOf(data, name) == IF Truthy(data[name]) THEN Upper(data[name]) ELSE EmptyStr
CapOf(data, name) == IF Truthy(data[name]) THEN Capitalize(data[name]) ELSE EmptyStr
\* str(data["birth_year"])
YearStr(data) == FormatPlain(data["birth_year"])

\* the right-hand side of the assignment to data[key]
FieldExpr(key, data) ==
    CASE key = "birthdate_str" -> Format02d(data["birthdate"])
      [] key = "birth_month_str" -> Format02d(data["birth_month"])
      [] key = "birth_year_short" -> SliceLast(YearStr(data), 2)
      [] key = "birth_year_last" -> Last(YearStr(data))
      [] key = "birth_year_first" -> First(YearStr(data))
      [] key = "birth_year_middle" -> SliceMid(YearStr(data), 1, 3)
      [] key = "first_name_short_3" -> ShortOf(data, "first_name", 3)
      [] key = "last_name_short_3" -> ShortOf(data, "last_name", 3)
      [] key = "first_name_short_2" -> ShortOf(data, "first_name", 2)
      [] key = "last_name_short_2" -> ShortOf(data, "last_name", 2)
      [] key = "first_name_short_4" -> Short4Of(data, "first_name")
      [] key = "last_name_short_4" -> Short4Of(data, "last_name")
      [] key = "first_name_middle" -> MiddleOf(data, "first_name")
      [] key = "last_name_middle" -> MiddleOf(data, "last_name")
      [] key = "first_name_initial" -> InitialOf(data, "first_name")
      [] key = "last_name_initial" -> InitialOf(data, "last_name")
      [] key = "father_name_initial" -> OptInitialOf(data, "father_name")
      [] key = "mother_name_initial" -> OptInitialOf(data, "mother_name")
      [] key = "spouse_name_initial" -> OptInitialOf(data, "spouse_name")
      [] key = "child_name_initial" -> OptInitialOf(data, "child_name")
      [] key = "pet_name_initial" -> OptInitialOf(data, "pet_name")
      [] key = "device_name" -> DeviceName(data)
      [] key = "social_id" -> SocialId(data)
      [] key = "residence_short" -> ShortOf(data, "residence", 4)
      [] key = "birthplace_short" -> ShortOf(data, "birthplace", 4)
      [] key = "phone_last4" -> PhonePart(data, SliceLast(data["phone_number"], 4))
      [] key = "phone_first3" -> PhonePart(data, SliceTo(data["phone_number"], 3))
      [] key = "phone_middle" -> PhonePart(data, SliceMid(data["phone_number"], 3, 6))
      [] key = "first_name_rev" -> RevOf(data, "first_name")
      [] key = "last_name_rev" -> RevOf(data, "last_name")
      [] key = "birth_year_rev" -> SliceRev(YearStr(data))
      [] key = "nickname" -> Nickname(data)
      [] key = "favorite_movie" -> FavoriteOf(data, "favorite_movie")
      [] key = "favorite_book" -> FavoriteOf(data, "favorite_book")
      [] key = "favorite_song" -> FavoriteOf(data, "favorite_song")
      [] key = "favorite_band" -> FavoriteOf(data, "favorite_band")
      [] key = "favorite_sport" -> FavoriteOf(data, "favorite_sport")
      [] key = "favorite_number" -> FavoriteOf(data, "favorite_number")
      [] key = "favorite_celebrity" -> FavoriteOf(data, "favorite_celebrity")
      [] key = "first_name_lower" -> LowerOf(data, "first_name")
      [] key = "last_name_lower" -> LowerOf(data, "last_name")
      [] key = "first_name_upper" -> UpperOf(data, "first_name")
      [] key = "last_name_upper" -> UpperOf(data, "last_name")
      [] key = "first_name_cap" -> CapOf(data, "first_name")
      [] key = "last_name_cap" -> CapOf(data, "last_name")

\* what a call returns: a value, or the exception it raised
Return(v) == [raised |-> FALSE, value |-> v, exc |-> ""]
Raise(e) == [raised |-> TRUE, value |-> <<>>, exc |-> e]

\* compute_extra_fields(profile): data = profile.dict(), then the assignments
\* of DerivedOrder. The right-hand side of each reads only keys of the
\* profile, none that an earlier assignment wrote, so each is evaluated on
\* profile.dict(); an assignment that raises ends the call.
compute_extra_fields(profile) ==
    LET keys == {DerivedOrder[n] : n \in DOMAIN DerivedOrder} IN
    IF \E key \in keys : IsExc(FieldExpr(key, profile))
    THEN Raise((FieldExpr(DerivedOrder[
              CHOOSE n \in DOMAIN DerivedOrder :
                  /\ IsExc(FieldExpr(DerivedOrder[n], profile))
                  /\ \A m \in 1..(n - 1) : ~IsExc(FieldExpr(DerivedOrder[m], profile))],
          profile)).e)
    ELSE Return([key \in (DOMAIN profile) \cup keys |->
                    IF key \in keys THEN FieldExpr(key, profile) ELSE profile[key]])

(* ------------------------------ formatting a template --------------- *)
\* one replacement field of a template
FormatPart(part, data) ==
    CASE part.k = "lit" -> StrV(part.s)
      [] part.k = "fld" -> FormatPlain(Item(data, part.n))
      [] part.k = "02d" -> Format02d(Item(data, part.n))

\* the parts from the n-th on appended to acc; the first part that raises
\* ends the formatting
RECURSIVE FormatFrom(_, _, _, _)
FormatFrom(template, data, n, acc) ==
    IF n > Len(template) THEN StrV(acc)
    ELSE LET v == FormatPart(template[n], data) IN
         IF IsExc(v) THEN v
         ELSE FormatFrom(template, data, n + 1, acc \o v.s)

Format(template, data) == FormatFrom(template, data, 1, <<>>)

\* x in lst
In(x, lst) == \E k \in DOMAIN lst : lst[k] = x

(* ------------------------------ generate_base_passwords --------------- *)
\* the loop body without the test `formatted not in base_passwords`
BaseStepUnchecked(base_passwords, template, data) ==
    LET formatted == Format(template, data) IN
    IF IsExc(formatted)
    THEN (IF formatted.e \in {"KeyError", "ValueError"} THEN Return(base_passwords)
          ELSE Raise(formatted.e))
    ELSE IF formatted.s # <<>>
         THEN Return(Append(base_passwords, formatted.s))
         ELSE Return(base_passwords)

\* the loop body appending the string and its upper-case form
BaseStepWithUpper(base_passwords, template, data) ==
    LET formatted == Format(template, data) IN
    IF IsExc(formatted)
    THEN (IF formatted.e \in {"KeyError", "ValueError"} THEN Return(base_passwords)
          ELSE Raise(formatted.e))
    ELSE IF formatted.s # <<>> /\ ~In(formatted.s, base_passwords)
         THEN Return(Append(Append(base_passwords, formatted.s), UpperS(formatted.s)))
         ELSE Return(base_passwords)

\* the loop body without its `except (KeyError, ValueError): continue`
BaseStepUncaught(base_passwords, template, data) ==
    LET formatted == Format(template, data) IN
    IF IsExc(formatted) THEN Raise(formatted.e)
    ELSE IF formatted.s # <<>> /\ ~In(formatted.s, base_passwords)
         THEN Return(Append(base_passwords, formatted.s))
         ELSE Return(base_passwords)

\* the loop body with a string that is rendered again moved to the end
BaseStepMoveToEnd(base_passwords, template, data) ==
    LET formatted == Format(template, data)
        Other(b) == b # formatted.s
    IN  IF IsExc(formatted)
        THEN (IF formatted.e \in {"KeyError", "ValueError"} THEN Return(base_passwords)
              ELSE Raise(formatted.e))
        ELSE IF formatted.s # <<>>
             THEN Return(Append(SelectSeq(base_passwords, Other), formatted.s))
             ELSE Return(base_passwords)

\* the loop body with `if formatted and formatted in base_passwords`
BaseStepOnlySeen(base_passwords, template, data) ==
    LET formatted == Format(template, data) IN
    IF IsExc(formatted)
    THEN (IF formatted.e \in {"KeyError", "ValueError"} THEN Return(base_passwords)
          ELSE Raise(formatted.e))
    ELSE IF formatted.s # <<>> /\ In(formatted.s, base_passwords)
         THEN Return(Append(base_passwords, formatted.s))
         ELSE Return(base_passwords)

\* the loop body with `if formatted not in base_passwords`, the test
\* `formatted and` left out
BaseStepKeepEmpty(base_passwords, template, data) ==
    LET formatted == Format(template, data) IN
    IF IsExc(formatted)
    THEN (IF formatted.e \in {"KeyError", "ValueError"} THEN Return(base_passwords)
          ELSE Raise(formatted.e))
    ELSE IF ~In(formatted.s, base_passwords)
         THEN Return(Append(base_passwords, formatted.s))
         ELSE Return(base_passwords)

\* one pass of the loop body: the template formatted, appended when it is
\* non-empty and new; KeyError and ValueError skip the template, any other
\* exception leaves the function
BaseStep(base_passwords, template, data) ==
    LET formatted == Format(template, data) IN
    IF IsExc(formatted)
    THEN (IF formatted.e \in {"KeyError", "ValueError"} THEN Return(base_passwords)
          ELSE Raise(formatted.e))
    ELSE IF formatted.s # <<>> /\ ~In(formatted.s, base_passwords)
         THEN Return(Append(base_passwords, formatted.s))
         ELSE Return(base_passwords)

(* ------------------------------ transformations ----------------------- *)
\* f"{pwd}123" and the like: literal text around a str
append_123(pwd) == StrV(pwd \o <<"1","2","3">>)
prepend_123(pwd) == StrV(<<"1","2","3">> \o pwd)
append_exclamation(pwd) == StrV(pwd \o <<"!">>)
prepend_exclamation(pwd) == StrV(<<"!">> \o pwd)
reverse_string(pwd) == StrV(ReverseS(pwd))

\* str.maketrans(x, y): ValueError unless x and y have the same length
maketrans(x, y) == IF Len(x) # Len(y) THEN Raise("ValueError")
                   ELSE Return([k \in DOMAIN x |-> <<x[k], y[k]>>])
\* the character c under a translation table: the entry of the last pair
\* whose first character is c, c itself when there is none
TranslateChar(c, table) ==
    LET hits == {k \in DOMAIN table : table[k][1] = c} IN
    IF hits = {} THEN c
    ELSE table[CHOOSE k \in hits : \A j \in hits : j <= k][2]
\* pwd.translate(table)
translate(pwd, table) == [k \in DOMAIN pwd |-> TranslateChar(pwd[k], table)]

leetspeak(pwd) ==
    LET mapping == maketrans(<<"a","A","e","E","i","I","o","O","s","S","t","T">>,
                             <<"4","4","3","3","1","1","0","0","5","5">>) IN
    IF mapping.raised THEN Exc(mapping.exc) ELSE StrV(translate(pwd, mapping.value))

\* c.upper() if i % 2 == 0 else c.lower(), i counted from 0
alternating_case(pwd) ==
    StrV([k \in DOMAIN pwd |-> IF (k - 1) % 2 = 0 THEN UpperChar(pwd[k]) ELSE LowerChar(pwd[k])])

append_year(pwd) == StrV(pwd \o <<"2","0","2","3">>)
append_year_short(pwd) == StrV(pwd \o <<"2","3">>)
append_at(pwd) == StrV(pwd \o <<"@">>)
append_hash(pwd) == StrV(pwd \o <<"#">>)
append_dollar(pwd) == StrV(pwd \o <<"$">>)
append_1(pwd) == StrV(pwd \o <<"1">>)
append_12(pwd) == StrV(pwd \o <<"1","2">>)
append_1234(pwd) == StrV(pwd \o <<"1","2","3","4">>)
append_12345(pwd) == StrV(pwd \o <<"1","2","3","4","5">>)
append_321(pwd) == StrV(pwd \o <<"3","2","1">>)
append_0(pwd) == StrV(pwd \o <<"0">>)
append_00(pwd) == StrV(pwd \o <<"0","0">>)
append_question(pwd) == StrV(pwd \o <<"?">>)
prepend_at(pwd) == StrV(<<"@">> \o pwd)

\* pwd[0].upper() + pwd[1:] if len(pwd) > 1 else pwd.upper(); "" for ""
capitalize_first(pwd) ==
    IF pwd = <<>> THEN StrV(pwd)
    ELSE IF Len(pwd) > 1 THEN StrV(<<UpperChar(pwd[1])>> \o SubSeq(pwd, 2, Len(pwd)))
    ELSE StrV(UpperS(pwd))
capitalize_all(pwd) == StrV(UpperS(pwd))
lowercase_all(pwd) == StrV(LowerS(pwd))
\* pwd + pwd[-1] without the `if not pwd` before it
double_last_charUnguarded(pwd) ==
    IF pwd = <<>> THEN Exc("IndexError") ELSE StrV(pwd \o <<pwd[Len(pwd)]>>)
\* pwd + pwd[-1]; "" for ""
double_last_char(pwd) ==
    IF pwd = <<>> THEN StrV(pwd) ELSE StrV(pwd \o <<pwd[Len(pwd)]>>)
between_dots(pwd) == StrV(<<".">> \o pwd \o <<".">>)
between_underscores(pwd) == StrV(<<"_">> \o pwd \o <<"_">>)
between_asterisks(pwd) == StrV(<<"*">> \o pwd \o <<"*">>)
substitute_a_with_4(pwd) == StrV(ReplaceS(ReplaceS(pwd, "a", "4"), "A", "4"))
substitute_e_with_3(pwd) == StrV(ReplaceS(ReplaceS(pwd, "e", "3"), "E", "3"))
substitute_i_with_1(pwd) == StrV(ReplaceS(ReplaceS(pwd, "i", "1"), "I", "1"))
substitute_o_with_0(pwd) == StrV(ReplaceS(ReplaceS(pwd, "o", "0"), "O", "0"))
substitute_s_with_5(pwd) == StrV(ReplaceS(ReplaceS(pwd, "s", "5"), "S", "5"))

advanced_leetspeak(pwd) ==
    LET mapping == maketrans(
            <<"a","A","e","E","i","I","o","O","s","S","t","T","b","B","l","L">>,
            <<"4","4","3","3","1","1","0","0","5","5","7","7","8","8","1">>) IN
    IF mapping.raised THEN Exc(mapping.exc) ELSE StrV(translate(pwd, mapping.value))

\* the transformation functions, in the order of the list
TRANSFORMATIONS == <<
    "identity", "append_123", "prepend_123", "append_exclamation", "prepend_exclamation",
    "reverse_string", "leetspeak", "alternating_case", "append_year", "append_year_short",
    "append_at", "append_hash", "append_dollar", "append_1", "append_12", "append_1234",
    "append_12345", "append_321", "append_0", "append_00", "append_question", "prepend_at",
    "capitalize_first", "capitalize_all", "lowercase_all", "double_last_char",
    "between_dots", "between_underscores", "between_asterisks", "substitute_a_with_4",
    "substitute_e_with_3", "substitute_i_with_1", "substitute_o_with_0",
    "substitute_s_with_5", "advanced_leetspeak" >>

\* transformation(password)
Call(transformation, pwd) ==
    CASE transformation = "identity" -> StrV(pwd)
      [] transformation = "append_123" -> append_123(pwd)
      [] transformation = "prepend_123" -> prepend_123(pwd)
      [] transformation = "append_exclamation" -> append_exclamation(pwd)
      [] transformation = "prepend_exclamation" -> prepend_exclamation(pwd)
      [] transformation = "reverse_string" -> reverse_string(pwd)
      [] transformation = "leetspeak" -> leetspeak(pwd)
      [] transformation = "alternating_case" -> alternating_case(pwd)
      [] transformation = "append_year" -> append_year(pwd)
      [] transformation = "append_year_short" -> append_year_short(pwd)
      [] transformation = "append_at" -> append_at(pwd)
      [] transformation = "append_hash" -> append_hash(pwd)
      [] transformation = "append_dollar" -> append_dollar(pwd)
      [] transformation = "append_1" -> append_1(pwd)
      [] transformation = "append_12" -> append_12(pwd)
      [] transformation = "append_1234" -> append_1234(pwd)
      [] transformation = "append_12345" -> append_12345(pwd)
      [] transformation = "append_321" -> append_321(pwd)
      [] transformation = "append_0" -> append_0(pwd)
      [] transformation = "append_00" -> append_00(pwd)
      [] transformation = "append_question" -> append_question(pwd)
      [] transformation = "prepend_at" -> prepend_at(pwd)
      [] transformation = "capitalize_first" -> capitalize_first(pwd)
      [] transformation = "capitalize_all" -> capitalize_all(pwd)
      [] transformation = "lowercase_all" -> lowercase_all(pwd)
      [] transformation = "double_last_char" -> double_last_char(pwd)
      [] transformation = "between_dots" -> between_dots(pwd)
      [] transformation = "between_underscores" -> between_underscores(pwd)
      [] transformation = "between_asterisks" -> between_asterisks(pwd)
      [] transformation = "substitute_a_with_4" -> substitute_a_with_4(pwd)
      [] transformation = "substitute_e_with_3" -> substitute_e_with_3(pwd)
      [] transformation = "substitute_i_with_1" -> substitute_i_with_1(pwd)
      [] transformation = "substitute_o_with_0" -> substitute_o_with_0(pwd)
      [] transformation = "substitute_s_with_5" -> substitute_s_with_5(pwd)
      [] transformation = "advanced_leetspeak" -> advanced_leetspeak(pwd)

(* ------------------------------ apply_transformations ----------------- *)
\* one pass of the loop body: a result that is non-empty and new is
\* appended; a transformation that raises is skipped (except Exception)
\* the loop body with transformed.insert(0, new_pwd) for the append
TransformStepAtFront(transformed, transformation, password) ==
    LET new_pwd == Call(transformation, password) IN
    IF IsExc(new_pwd) THEN transformed
    ELSE IF new_pwd.s # <<>> /\ ~In(new_pwd.s, transformed)
         THEN <<new_pwd.s>> \o transformed
         ELSE transformed

\* the loop body with an exception emptying the list built so far
TransformStepLosesOnRaise(transformed, transformation, password) ==
    LET new_pwd == Call(transformation, password) IN
    IF IsExc(new_pwd) THEN <<>>
    ELSE IF new_pwd.s # <<>> /\ ~In(new_pwd.s, transformed)
         THEN Append(transformed, new_pwd.s)
         ELSE transformed

\* the loop body without the test `new_pwd not in transformed`
TransformStepUnchecked(transformed, transformation, password) ==
    LET new_pwd == Call(transformation, password) IN
    IF IsExc(new_pwd) THEN transformed
    ELSE IF new_pwd.s # <<>> THEN Append(transformed, new_pwd.s) ELSE transformed

\* the loop body taking a string the transformation left unchanged for
\* not new
TransformStepOnlyChanged(transformed, transformation, password) ==
    LET new_pwd == Call(transformation, password) IN
    IF IsExc(new_pwd) THEN transformed
    ELSE IF new_pwd.s # <<>> /\ new_pwd.s # password /\ ~In(new_pwd.s, transformed)
         THEN Append(transformed, new_pwd.s)
         ELSE transformed

TransformStep(transformed, transformation, password) ==
    LET new_pwd == Call(transformation, password) IN
    IF IsExc(new_pwd) THEN transformed
    ELSE IF new_pwd.s # <<>> /\ ~In(new_pwd.s, transformed)
         THEN Append(transformed, new_pwd.s)
         ELSE transformed

\* the loop of lines 745-752 left at its first append
apply_transformationsFirstOnly(password) == <<password>>

\* apply_transformations(password), the loop of lines 745-752 run to its end:
\* a result is appended when it is not an exception, not empty, and no
\* earlier transformation gave the same string
apply_transformations(password) ==
    LET result == [t \in DOMAIN TRANSFORMATIONS |-> Call(TRANSFORMATIONS[t], password)]
        Appended(t) == /\ ~IsExc(result[t])
                       /\ result[t].s # <<>>
                       /\ \A u \in 1..(t - 1) : result[u] # result[t]
        kept == SelectSeq([t \in DOMAIN TRANSFORMATIONS |-> t], Appended)
    IN  [n \in 1..Len(kept) |-> result[kept[n]].s]

(* ------------------------------ generate_passwords -------------------- *)
\* the loop of lines 770-772 with the test of line 771 inverted
AppendVariantsInverted(passwords, variants) ==
    LET Appended(variant) == In(variant, passwords)
    IN  passwords \o SelectSeq(variants, Appended)

\* the loop of lines 770-772 run to its end on the list passwords: a variant
\* is appended when it is not in the list, nor among the variants before it
AppendVariants(passwords, variants) ==
    LET Appended(i) == /\ ~In(variants[i], passwords)
                       /\ \A j \in 1..(i - 1) : variants[j] # variants[i]
        kept == SelectSeq([i \in 1..Len(variants) |-> i], Appended)
    IN  passwords \o [n \in 1..Len(kept) |-> variants[kept[n]]]

(* ------------------------------ UserProfile --------------------------- *)
\* a profile with the required attributes set and every optional one at its
\* default: None, and [] for device_names
UserProfile(first_name, last_name, birthdate, birth_month, birth_year, phone_number) == [
    first_name |-> StrV(first_name), last_name |-> StrV(last_name), nickname |-> NoneV,
    birthdate |-> IntV(birthdate), birth_month |-> IntV(birth_month),
    birth_year |-> IntV(birth_year),
    birthplace |-> StrV(<<"D","e","l","h","i">>), residence |-> StrV(<<"G","o","a">>),
    phone_number |-> StrV(phone_number), email |-> StrV(<<"a","@","b",".","c","o">>),
    father_name |-> NoneV, mother_name |-> NoneV, spouse_name |-> NoneV,
    child_name |-> NoneV, pet_name |-> NoneV, company_name |-> NoneV,
    ex_partner_name |-> NoneV, school_name |-> NoneV, college_name |-> NoneV,
    favorite_movie |-> NoneV, favorite_song |-> NoneV, favorite_band |-> NoneV,
    favorite_sport |-> NoneV, favorite_book |-> NoneV, favorite_celebrity |-> NoneV,
    gamer_tag |-> NoneV, device_names |-> ListV(<<>>), favorite_number |-> NoneV,
    facebook_id |-> NoneV, twitter_id |-> NoneV, instagram_id |-> NoneV,
    linkedin_id |-> NoneV, github_id |-> NoneV, reddit_id |-> NoneV, tiktok_id |-> NoneV,
    snapchat_id |-> NoneV, pinterest_id |-> NoneV, youtube_id |-> NoneV ]

RequiredFields == {"first_name", "last_name", "birthdate", "birth_month", "birth_year",
                   "birthplace", "residence", "phone_number", "email"}
OptionalFields == (DOMAIN UserProfile(<<>>, <<>>, 1, 1, 2000, <<>>)) \ RequiredFields

\* only the required attributes are set
RequiredOnly(p) == /\ \A f \in OptionalFields \ {"device_names"} : p[f].t = "none"
                   /\ p["device_names"] = ListV(<<>>)

(* ------------------------------ the inputs ---------------------------- *)
Phone10 == <<"1","2","3","4","5","6","7","8","9","0">>
Ann == UserProfile(<<"A","n","n">>, <<"L","e","e">>, 3, 9, 2005, Phone10)
\* names and phone shorter than the slices taken of them, a one-digit year
Tiny == UserProfile(<<"j">>, <<"O">>, 31, 12, 7, <<"9","8","7">>)
\* empty strings where the model of the profile allows them
Blank == UserProfile(<<>>, <<>>, 1, 1, 1999, <<>>)
Sam == UserProfile(<<"s","a","m","i","r">>, <<"D","e","s","a","i">>, 12, 11, 1987,
                   <<"5","5","5","0","1","0","0","2","2","3","4">>)

Raj == StrV(<<"R","a","j">>)
Ig == StrV(<<"a","_","i","g">>)
Fb == StrV(<<"a","F","B">>)
Tw == StrV(<<"@","a">>)

\* every way of setting the three handles social_id is derived from
Handles == {NoneV, EmptyStr}
WithHandles(p, ig, fb, tw) ==
    [p EXCEPT !["instagram_id"] = ig, !["facebook_id"] = fb, !["twitter_id"] = tw]
HandleProfiles ==
    {WithHandles(Ann, ig, fb, tw) :
        ig \in Handles \cup {Ig}, fb \in Handles \cup {Fb}, tw \in Handles \cup {Tw}}

\* optional attributes set, one group at a time and all together
Family == [Ann EXCEPT !["father_name"] = Raj, !["mother_name"] = StrV(<<"a","n","u">>),
                      !["pet_name"] = StrV(<<"R","e","x">>)]
Couple == [Tiny EXCEPT !["spouse_name"] = StrV(<<"M","i","a">>),
                       !["child_name"] = StrV(<<"z">>),
                       !["gamer_tag"] = StrV(<<"N","1","n","j","a">>),
                       !["nickname"] = StrV(<<"J","J">>)]
Fan == [Sam EXCEPT !["favorite_movie"] = StrV(<<"U","p">>),
                   !["favorite_song"] = StrV(<<"s","o","s">>),
                   !["favorite_band"] = StrV(<<"a","b","b","a">>),
                   !["favorite_sport"] = StrV(<<"g","o","l","f">>),
                   !["favorite_book"] = StrV(<<"I","t">>),
                   !["favorite_celebrity"] = StrV(<<"B","o","n","o">>),
                   !["favorite_number"] = IntV(7),
                   !["device_names"] = ListV(<< <<"i","P","h","o","n","e">>, <<"D","e","l","l">> >>),
                   !["nickname"] = EmptyStr]
Zero == [Blank EXCEPT !["favorite_number"] = IntV(0),
                      !["device_names"] = ListV(<< <<"p","c">> >>),
                      !["father_name"] = EmptyStr,
                      !["pet_name"] = StrV(<<"o">>)]

Profiles == {Ann, Tiny, Blank, Sam, Family, Couple, Fan, Zero}

(* ------------------------------ the bounds ---------------------------- *)
\* an invocation iterates a slice of the catalog, Window templates long;
\* the slices tile the catalog, so every template is evaluated
Window == 3
Slices == {<<lo, Min(lo + Window - 1, Len(ALGORITHM_TEMPLATE))>> :
              lo \in {k \in DOMAIN ALGORITHM_TEMPLATE : (k - 1) % Window = 0}}
WholeCatalog == <<1, Len(ALGORITHM_TEMPLATE)>>
\* the slices with a template that refers to the field name
SlicesWith(name) ==
    {s \in Slices : \E k \in s[1]..s[2] : name \in TemplateFields(ALGORITHM_TEMPLATE[k])}
\* every profile on every slice; the handle variants on the slices that
\* render social_id
Inputs == (Profiles \X Slices) \cup (HandleProfiles \X SlicesWith("social_id"))

\* the invocations of generate_passwords
Runs == {1, 2}

(* ------------------------------ the state ----------------------------- *)
VARIABLES
    profile,         \* the argument of each invocation
    slice,           \* <<first, last>> index of the catalog entries it iterates
    pc,              \* where each invocation is
    computed_data,   \* generate_base_passwords: the derived field set
    base_passwords,  \* generate_base_passwords: the list being built, then returned
    ti,              \* generate_base_passwords: index of the next template
    bi,              \* generate_passwords: index of the next base candidate
    transformed,     \* apply_transformations: the list being built
    tj,              \* apply_transformations: index of the next transformation
    variants,        \* generate_passwords: the list apply_transformations returned
    vi,              \* generate_passwords: index of the next variant
    passwords        \* generate_passwords: the list being built, then returned

\* the state of a call of export_hashcat_format or export_john_format
VARIABLES
    md4,             \* whether the hashlib of the build provides md4
    call,            \* the function called and its arguments
    f,               \* the content of the output file
    xi,              \* index of the next password of the loop
    xpc              \* where the call is

xvars == <<md4, call, f, xi, xpc>>

\* the state of a call of simulate_dictionary_attack, of simulate_brute_force
\* or of one transformation function
VARIABLES
    sim,             \* the function called and its arguments
    attempts,        \* the counter of the simulation
    si,              \* index of the next word, or the next length
    results,         \* what the call returned
    spc              \* where the call is

svars == <<sim, attempts, si, results, spc>>

vars == <<profile, slice, pc, computed_data, base_passwords, ti, bi, transformed, tj,
          variants, vi, passwords, xvars, svars>>

\* no export is called
NoCall == [fn |-> "", passwords |-> <<>>, hash_type |-> ""]
NoExport ==
    /\ md4 = TRUE
    /\ call = NoCall
    /\ f = <<>>
    /\ xi = 1
    /\ xpc = "idle"

NoData == <<>>

\* no simulation and no transformation is called
NoSimulation ==
    /\ sim = [fn |-> "", password |-> <<>>, wordlist |-> <<>>, charset |-> <<>>]
    /\ attempts = 0
    /\ si = 1
    /\ results = NoData
    /\ spc = "idle"

InitWith(inputs) ==
    /\ \E in \in inputs :
          /\ profile = [r \in Runs |-> IF r = 1 THEN in[1] ELSE NoData]
          /\ slice = [r \in Runs |-> IF r = 1 THEN in[2] ELSE <<1, 0>>]
    /\ pc = [r \in Runs |-> IF r = 1 THEN "start" ELSE "idle"]
    /\ computed_data = [r \in Runs |-> NoData]
    /\ base_passwords = [r \in Runs |-> <<>>]
    /\ ti = [r \in Runs |-> 1]
    /\ bi = [r \in Runs |-> 1]
    /\ transformed = [r \in Runs |-> <<>>]
    /\ tj = [r \in Runs |-> 1]
    /\ variants = [r \in Runs |-> <<>>]
    /\ vi = [r \in Runs |-> 1]
    /\ passwords = [r \in Runs |-> <<>>]
    /\ NoExport
    /\ NoSimulation

Init == InitWith(Inputs)

\* the test of line 771 made against the variants of the same base
\* candidate only
NotInPasswordsOfCandidate(r, variant) == ~In(variant, SubSeq(variants[r], 1, vi[r] - 1))
\* the test of line 771 left out: every variant is appended
NotInPasswordsUnchecked(r, variant) == TRUE
\* a list of the strings seen that outlives the call: a variant an earlier
\* invocation appended is not appended again
NotInPasswordsAnyRun(r, variant) == \A q \in Runs : ~In(variant, passwords[q])

\* passwords a module-level list, the one of the first invocation
NotInPasswordsOfFirst(r, variant) == ~In(variant, passwords[1])

\* variant not in passwords, in invocation r
NotInPasswords(r, variant) == ~In(variant, passwords[r])

\* data = vars(profile) for line 495: the assignments of lines 497-563 are
\* made to the attributes of the profile
ProfileAfterShared(given, data) == [k \in DOMAIN given |-> data[k]]

\* the profile once compute_extra_fields has returned data: profile.dict()
\* (line 495) is a new dict, and every assignment of lines 497-563 is to it
ProfileAfter(given, data) == given

\* generate_passwords is entered: passwords = [], and generate_base_passwords
\* starts with base_passwords = [] and the derived field set
Enter(r) ==
    /\ pc[r] = "start"
    /\ LET data == compute_extra_fields(profile[r]) IN
       /\ computed_data' = [computed_data EXCEPT ![r] = IF data.raised THEN NoData ELSE data.value]
       /\ pc' = [pc EXCEPT ![r] = IF data.raised THEN "raised" ELSE "templates"]
       /\ profile' = [profile EXCEPT ![r] = IF data.raised THEN @ ELSE ProfileAfter(@, data.value)]
    /\ passwords' = [passwords EXCEPT ![r] = <<>>]
    /\ base_passwords' = [base_passwords EXCEPT ![r] = <<>>]
    /\ ti' = [ti EXCEPT ![r] = slice[r][1]]
    /\ UNCHANGED <<slice, bi, transformed, tj, variants, vi>>
    /\ UNCHANGED <<xvars, svars>>

\* one iteration of `for template in ALGORITHM_TEMPLATE`; after the last
\* one generate_base_passwords returns its list
Template(r) ==
    /\ pc[r] = "templates"
    /\ LET step == BaseStep(base_passwords[r], ALGORITHM_TEMPLATE[ti[r]], computed_data[r]) IN
       /\ base_passwords' = [base_passwords EXCEPT ![r] = IF step.raised THEN @ ELSE step.value]
       /\ pc' = [pc EXCEPT ![r] = IF step.raised THEN "raised"
                                  ELSE IF ti[r] >= slice[r][2] THEN "bases" ELSE "templates"]
    /\ ti' = [ti EXCEPT ![r] = @ + 1]
    /\ bi' = [bi EXCEPT ![r] = 1]
    /\ UNCHANGED <<profile, slice, computed_data, transformed, tj, variants, vi, passwords>>
    /\ UNCHANGED <<xvars, svars>>

\* one iteration of `for base in base_passwords` begins:
\* apply_transformations(base) is entered with transformed = []
Base(r) ==
    /\ pc[r] = "bases"
    /\ bi[r] <= Len(base_passwords[r])
    /\ transformed' = [transformed EXCEPT ![r] = <<>>]
    /\ tj' = [tj EXCEPT ![r] = 1]
    /\ pc' = [pc EXCEPT ![r] = "transformations"]
    /\ UNCHANGED <<profile, slice, computed_data, base_passwords, ti, bi, variants, vi, passwords>>
    /\ UNCHANGED <<xvars, svars>>

\* one iteration of `for transformation in TRANSFORMATIONS`; past the last
\* one apply_transformations returns transformed, which becomes variants
Transformation(r) ==
    /\ pc[r] = "transformations"
    /\ IF tj[r] <= Len(TRANSFORMATIONS)
       THEN /\ transformed' = [transformed EXCEPT ![r] =
                    TransformStep(@, TRANSFORMATIONS[tj[r]], base_passwords[r][bi[r]])]
            /\ tj' = [tj EXCEPT ![r] = @ + 1]
            /\ UNCHANGED <<pc, variants, vi>>
       ELSE /\ variants' = [variants EXCEPT ![r] = transformed[r]]
            /\ vi' = [vi EXCEPT ![r] = 1]
            /\ pc' = [pc EXCEPT ![r] = "variants"]
            /\ UNCHANGED <<transformed, tj>>
    /\ UNCHANGED <<profile, slice, computed_data, base_passwords, ti, bi, passwords>>
    /\ UNCHANGED <<xvars, svars>>

\* one iteration of `for variant in variants`; past the last variant the
\* outer loop goes on with the next base candidate
Variant(r) ==
    /\ pc[r] = "variants"
    /\ IF vi[r] <= Len(variants[r])
       THEN /\ passwords' = [passwords EXCEPT ![r] =
                                IF NotInPasswords(r, variants[r][vi[r]])
                                THEN Append(@, variants[r][vi[r]]) ELSE @]
            /\ vi' = [vi EXCEPT ![r] = @ + 1]
            /\ UNCHANGED <<pc, bi>>
       ELSE /\ bi' = [bi EXCEPT ![r] = @ + 1]
            /\ pc' = [pc EXCEPT ![r] = "bases"]
            /\ UNCHANGED <<passwords, vi>>
    /\ UNCHANGED <<profile, slice, computed_data, base_passwords, ti, transformed, tj, variants>>
    /\ UNCHANGED <<xvars, svars>>

\* return passwords
Finish(r) ==
    /\ pc[r] = "bases"
    /\ bi[r] > Len(base_passwords[r])
    /\ pc' = [pc EXCEPT ![r] = "done"]
    /\ UNCHANGED <<profile, slice, computed_data, base_passwords, ti, bi, transformed, tj,
                   variants, vi, passwords>>
    /\ UNCHANGED <<xvars, svars>>

Next == \E r \in Runs :
    Enter(r) \/ Template(r) \/ Base(r) \/ Transformation(r) \/ Variant(r) \/ Finish(r)

Spec == Init /\ [][Next]_vars

\* one whole iteration of `for base in base_passwords`: the call of
\* apply_transformations and the loop over the variants it returns
Candidate(r) ==
    /\ pc[r] = "bases"
    /\ bi[r] <= Len(base_passwords[r])
    /\ LET returned == apply_transformations(base_passwords[r][bi[r]]) IN
       /\ transformed' = [transformed EXCEPT ![r] = returned]
       /\ variants' = [variants EXCEPT ![r] = returned]
       /\ passwords' = [passwords EXCEPT ![r] = AppendVariants(@, returned)]
    /\ tj' = [tj EXCEPT ![r] = Len(TRANSFORMATIONS) + 1]
    /\ vi' = [vi EXCEPT ![r] = Len(variants'[r]) + 1]
    /\ bi' = [bi EXCEPT ![r] = @ + 1]
    /\ UNCHANGED <<profile, slice, pc, computed_data, base_passwords, ti>>
    /\ UNCHANGED <<xvars, svars>>

\* the whole catalog, every profile, one base candidate a step
InitCatalog == InitWith(Profiles \X {WholeCatalog})
NextCatalog == \E r \in Runs : Enter(r) \/ Template(r) \/ Candidate(r) \/ Finish(r)
SpecCatalog == InitCatalog /\ [][NextCatalog]_vars

\* a second call of generate_passwords, made with an equal profile once the
\* first has returned
Again ==
    /\ pc[1] = "done"
    /\ pc[2] = "idle"
    /\ pc' = [pc EXCEPT ![2] = "start"]
    /\ profile' = [profile EXCEPT ![2] = profile[1]]
    /\ slice' = [slice EXCEPT ![2] = slice[1]]
    /\ UNCHANGED <<computed_data, base_passwords, ti, bi, transformed, tj, variants, vi,
                   passwords>>
    /\ UNCHANGED <<xvars, svars>>

InitTwice == InitWith(Profiles \X Slices)
NextTwice == Next \/ Again
SpecTwice == InitTwice /\ [][NextTwice]_vars

\* generate_base_passwords has returned in invocation r
BaseReturned(r) == pc[r] \in {"bases", "transformations", "variants", "done"}
\* compute_extra_fields has returned in invocation r
FieldsReturned(r) == pc[r] = "templates" \/ BaseReturned(r)
\* invocation r has ended, by a return or by an exception
Ended(r) == pc[r] \in {"done", "raised"}

(* ------------------------------ two invocations at once --------------- *)
\* the slice the k-th template is in
SliceOf(k) == CHOOSE s \in Slices : s[1] <= k /\ k <= s[2]
\* {father_name}{birth_year} and its neighbours; the literals that end the
\* catalog, which render the same for every profile
FatherSlice == SliceOf(124)
LastSlice == SliceOf(Len(ALGORITHM_TEMPLATE))
\* the two invocations: on equal profiles, on different profiles that yield
\* the same strings, on different profiles and slices
PairInputs == { << <<Ann, FatherSlice>>, <<Ann, FatherSlice>> >>,
                << <<Ann, LastSlice>>, <<Sam, LastSlice>> >>,
                << <<Family, FatherSlice>>, <<Tiny, LastSlice>> >> }

InitInterleaved ==
    /\ \E in \in PairInputs :
          /\ profile = [r \in Runs |-> in[r][1]]
          /\ slice = [r \in Runs |-> in[r][2]]
    /\ pc = [r \in Runs |-> "start"]
    /\ computed_data = [r \in Runs |-> NoData]
    /\ base_passwords = [r \in Runs |-> <<>>]
    /\ ti = [r \in Runs |-> 1]
    /\ bi = [r \in Runs |-> 1]
    /\ transformed = [r \in Runs |-> <<>>]
    /\ tj = [r \in Runs |-> 1]
    /\ variants = [r \in Runs |-> <<>>]
    /\ vi = [r \in Runs |-> 1]
    /\ passwords = [r \in Runs |-> <<>>]
    /\ NoExport
    /\ NoSimulation

\* the steps of the two invocations in any order
SpecInterleaved == InitInterleaved /\ [][Next]_vars

(* ------------------------------ a template that cannot be rendered ---- *)
\* the template of line 442 with its neighbours on both sides
SkippedAt == CHOOSE k \in DOMAIN ALGORITHM_TEMPLATE :
                 "father_name_short_3" \in TemplateFields(ALGORITHM_TEMPLATE[k])
SkippedSlice == <<SkippedAt - 1, SkippedAt + 1>>
InitSkipped == InitWith(Profiles \X {SkippedSlice})
SpecSkipped == InitSkipped /\ [][Next]_vars

(* ------------------------------ phone numbers of every length --------- *)
MaxPhone == 11
\* 1234567890123..., n characters of it
PhoneOf(n) == [k \in 1..n |-> Digits[(k % 10) + 1]]
PhoneProfiles == {[Ann EXCEPT !["phone_number"] = StrV(PhoneOf(n))] : n \in 0..MaxPhone}
InitPhone == InitWith(PhoneProfiles \X SlicesWith("phone_middle"))
SpecPhone == InitPhone /\ [][Next]_vars

(* ------------------------------ one invocation alone ------------------ *)
\* generate_base_passwords on the templates lo..hi with the field set data,
\* from the list acc on (for slices: the recursion is as deep as the range)
RECURSIVE BaseLoop(_, _, _, _)
BaseLoop(data, lo, hi, acc) ==
    IF lo > hi THEN Return(acc)
    ELSE LET step == BaseStep(acc, ALGORITHM_TEMPLATE[lo], data) IN
         IF step.raised THEN step ELSE BaseLoop(data, lo + 1, hi, step.value)

\* generate_base_passwords(profile) on a slice of the catalog
generate_base_passwords(given, s) ==
    LET data == compute_extra_fields(given) IN
    IF data.raised THEN data ELSE BaseLoop(data.value, s[1], s[2], <<>>)

\* the loop of lines 768-772 from the n-th base candidate on
RECURSIVE PasswordLoop(_, _, _)
PasswordLoop(bases, n, acc) ==
    IF n > Len(bases) THEN acc
    ELSE PasswordLoop(bases, n + 1, AppendVariants(acc, apply_transformations(bases[n])))

\* generate_passwords(profile) on a slice of the catalog
generate_passwords(given, s) ==
    LET bases == generate_base_passwords(given, s) IN
    IF bases.raised THEN bases ELSE Return(PasswordLoop(bases.value, 1, <<>>))

(* ------------------------------ attack_simulator: exports ------------- *)
\* the content of a file: characters, and the hex digests written to it
Chr(c) == [k |-> "chr", c |-> c, alg |-> "", data |-> <<>>, enc |-> ""]
\* hashlib.<alg>(password.encode(<enc>)).hexdigest(): a digest is a function
\* of the algorithm and of the bytes alone
Hexdigest(alg, password, enc) ==
    [k |-> "hex", c |-> "", alg |-> alg, data |-> password, enc |-> enc]
Text(s) == [n \in DOMAIN s |-> Chr(s[n])]
\* the number of hex characters of a digest
HexLen(alg) == CASE alg = "md4" -> 32 [] alg = "md5" -> 32 [] alg = "sha1" -> 40
                 [] alg = "sha256" -> 64 [] alg = "sha512" -> 128
\* h[:32] of a hex digest h of at most 32 characters
Hex32(h) == IF HexLen(h.alg) <= 32 THEN h ELSE [h EXCEPT !.alg = h.alg \o "[:32]"]

\* hashlib.new('md4', ...): ValueError when the build has no md4
NewMd4(password) ==
    IF md4 THEN Return(Hexdigest("md4", password, "utf-16le")) ELSE Raise("ValueError")

\* generate_hashes(password): the dict of the six digests, all computed
\* whatever digest the caller wants
generate_hashes(password) ==
    LET ntlm == NewMd4(password)
        lm == NewMd4(password)
    IN  IF ntlm.raised THEN ntlm
        ELSE IF lm.raised THEN lm
        ELSE Return([md5 |-> Hexdigest("md5", password, "utf-8"),
                     sha1 |-> Hexdigest("sha1", password, "utf-8"),
                     sha256 |-> Hexdigest("sha256", password, "utf-8"),
                     sha512 |-> Hexdigest("sha512", password, "utf-8"),
                     ntlm |-> ntlm.value,
                     lm |-> Hex32(lm.value)])

\* what one pass of the loop of export_hashcat_format writes
HashcatWrite(hashes, hash_type, password) ==
    IF hash_type \in DOMAIN hashes
    THEN <<hashes[hash_type]>> \o Text(<<":">>) \o Text(password) \o Text(<<"\n">>)
    ELSE <<>>

\* what one pass of the loop of export_john_format writes
JohnWrite(hashes, hash_type, password) ==
    IF hash_type \in DOMAIN hashes
    THEN IF hash_type = "sha256"
         THEN Text(<<"$","S","H","A","2","5","6","$">>) \o <<hashes[hash_type]>>
                  \o Text(<<":">>) \o Text(password) \o Text(<<"\n">>)
         ELSE IF hash_type = "ntlm"
              THEN <<hashes[hash_type]>> \o Text(<<":">>) \o Text(password) \o Text(<<"\n">>)
              ELSE <<>>
    ELSE <<>>

\* the passwords exported, and the lists of them
MaxExported == 3
ExportedPasswords == {<<"A","n","n">>, <<"x",":","1">>, <<"$">>}
ExportedLists == UNION {[1..n -> ExportedPasswords] : n \in 0..MaxExported}
\* the digests the menus offer, lm, and a name generate_hashes does not know
HashTypes == {"md5", "sha1", "sha256", "sha512", "ntlm", "lm", "crc32"}
Exports == {"export_hashcat_format", "export_john_format"}

InitExport ==
    /\ md4 \in BOOLEAN
    /\ call \in [fn : Exports, passwords : ExportedLists, hash_type : HashTypes]
    /\ f \in {<<>>, Text(<<"o","l","d","\n">>)}
    /\ xi = 1
    /\ xpc = "start"
    /\ NoSimulation
    /\ profile = [r \in Runs |-> NoData]
    /\ slice = [r \in Runs |-> <<1, 0>>]
    /\ pc = [r \in Runs |-> "idle"]
    /\ computed_data = [r \in Runs |-> NoData]
    /\ base_passwords = [r \in Runs |-> <<>>]
    /\ ti = [r \in Runs |-> 1]
    /\ bi = [r \in Runs |-> 1]
    /\ transformed = [r \in Runs |-> <<>>]
    /\ tj = [r \in Runs |-> 1]
    /\ variants = [r \in Runs |-> <<>>]
    /\ vi = [r \in Runs |-> 1]
    /\ passwords = [r \in Runs |-> <<>>]

GenerationIdle ==
    UNCHANGED <<profile, slice, pc, computed_data, base_passwords, ti, bi, transformed, tj,
                variants, vi, passwords>>

\* open(output_file, 'w'): the file is created, or emptied
Open ==
    /\ xpc = "start"
    /\ f' = <<>>
    /\ xi' = 1
    /\ xpc' = "writing"
    /\ UNCHANGED <<md4, call>>
    /\ GenerationIdle
    /\ UNCHANGED svars

\* one pass of `for password in passwords`; an exception of generate_hashes
\* leaves the with block, which closes the file, and the function
Write ==
    /\ xpc = "writing"
    /\ xi <= Len(call.passwords)
    /\ LET password == call.passwords[xi]
           hashes == generate_hashes(password)
       IN  IF hashes.raised
           THEN /\ xpc' = "raised"
                /\ UNCHANGED <<f, xi>>
           ELSE /\ f' = f \o (IF call.fn = "export_hashcat_format"
                              THEN HashcatWrite(hashes.value, call.hash_type, password)
                              ELSE JohnWrite(hashes.value, call.hash_type, password))
                /\ xi' = xi + 1
                /\ xpc' = xpc
    /\ UNCHANGED <<md4, call>>
    /\ GenerationIdle
    /\ UNCHANGED svars

\* the loop is over: the file is closed and the function returns
Close ==
    /\ xpc = "writing"
    /\ xi > Len(call.passwords)
    /\ xpc' = "closed"
    /\ UNCHANGED <<md4, call, f, xi>>
    /\ GenerationIdle
    /\ UNCHANGED svars

NextExport == Open \/ Write \/ Close
SpecExport == InitExport /\ [][NextExport]_vars

(* ------------------------------ one transformation called ------------- *)
\* no invocation of generate_passwords
NoGeneration ==
    /\ profile = [r \in Runs |-> NoData]
    /\ slice = [r \in Runs |-> <<1, 0>>]
    /\ pc = [r \in Runs |-> "idle"]
    /\ computed_data = [r \in Runs |-> NoData]
    /\ base_passwords = [r \in Runs |-> <<>>]
    /\ ti = [r \in Runs |-> 1]
    /\ bi = [r \in Runs |-> 1]
    /\ transformed = [r \in Runs |-> <<>>]
    /\ tj = [r \in Runs |-> 1]
    /\ variants = [r \in Runs |-> <<>>]
    /\ vi = [r \in Runs |-> 1]
    /\ passwords = [r \in Runs |-> <<>>]

\* the empty string, strings of one character, and two longer ones
ShortStrings == {<<>>, <<"a">>, <<"Z">>, <<"7">>, <<"_">>, <<"a","b">>, <<"s","T","o">>}

\* a transformation of the list is called with a short string
InitTransform ==
    /\ \E t \in DOMAIN TRANSFORMATIONS : \E pwd \in ShortStrings :
          sim = [fn |-> TRANSFORMATIONS[t], password |-> pwd, wordlist |-> <<>>,
                 charset |-> <<>>]
    /\ attempts = 0
    /\ si = 1
    /\ results = NoData
    /\ spc = "call"
    /\ NoExport
    /\ NoGeneration

\* the function returns, or raises
Transform ==
    /\ spc = "call"
    /\ results' = Call(sim.fn, sim.password)
    /\ spc' = IF IsExc(results') THEN "raised" ELSE "returned"
    /\ UNCHANGED <<sim, attempts, si>>
    /\ GenerationIdle
    /\ UNCHANGED xvars

SpecTransform == InitTransform /\ [][Transform]_vars

(* ------------------------------ attack_simulator: simulations --------- *)
\* max_attempts = 1000000, the limit of simulate_brute_force
max_attempts == 1000000
\* the default of the parameter charset
DefaultCharset == LowerAlpha \o UpperAlpha \o Digits

\* len(charset) ** length, or max_attempts when the power is larger: the
\* inner loop never counts further than max_attempts iterations
RECURSIVE PowerUpTo(_, _)
PowerUpTo(c, length) ==
    IF length = 0 THEN 1 ELSE Min(max_attempts, c * PowerUpTo(c, length - 1))

\* `for attempt in range(count)` run to its end or to its break, attempts
\* being a before it: every iteration adds 1, then breaks when
\* attempts >= max_attempts
InnerLoop(a, count) ==
    IF count = 0 THEN a
    ELSE IF a + 1 >= max_attempts THEN a + 1
    ELSE Min(a + count, max_attempts)

MaxWords == 3
MaxPasswordLen == 7
Words == {<<"a">>, <<"b">>, <<"a","b">>}
Wordlists == UNION {[1..n -> Words] : n \in 0..MaxWords}
Charsets == {<<>>, <<"a">>, <<"a","b">>, Digits, DefaultCharset}

\* a call of simulate_dictionary_attack(password, wordlist) or of
\* simulate_brute_force(password, charset)
InitSimulate ==
    /\ \/ \E password \in Words \cup {<<"z">>} : \E wordlist \in Wordlists :
             /\ sim = [fn |-> "simulate_dictionary_attack", password |-> password,
                       wordlist |-> wordlist, charset |-> <<>>]
             /\ spc = "words"
       \/ \E n \in 0..MaxPasswordLen : \E charset \in Charsets :
             /\ sim = [fn |-> "simulate_brute_force", password |-> [k \in 1..n |-> "a"],
                       wordlist |-> <<>>, charset |-> charset]
             /\ spc = "lengths"
    /\ attempts = 0
    /\ si = 1
    /\ results = NoData
    /\ NoExport
    /\ NoGeneration

\* one iteration of `for word in wordlist`
Word ==
    /\ spc = "words"
    /\ si <= Len(sim.wordlist)
    /\ attempts' = attempts + 1
    /\ IF sim.wordlist[si] = sim.password
       THEN spc' = "break" /\ si' = si
       ELSE spc' = spc /\ si' = si + 1
    /\ UNCHANGED <<sim, results>>
    /\ GenerationIdle
    /\ UNCHANGED xvars

\* the loop is left, by its break or at the end of the wordlist, and the
\* dict is returned (duration and attempts_per_second, which depend on the
\* clock, are not kept)
ReturnFound ==
    /\ spc = "break" \/ (spc = "words" /\ si > Len(sim.wordlist))
    /\ results' = [password |-> sim.password, attempts |-> attempts,
                   found |-> attempts <= Len(sim.wordlist)]
    /\ spc' = "returned"
    /\ UNCHANGED <<sim, attempts, si>>
    /\ GenerationIdle
    /\ UNCHANGED xvars

\* one iteration of `for length in range(1, len(password) + 1)`: the inner
\* loop runs to its end or to its break, which leaves the inner loop only
Length ==
    /\ spc = "lengths"
    /\ si <= Len(sim.password)
    /\ attempts' = InnerLoop(attempts, PowerUpTo(Len(sim.charset), si))
    /\ si' = si + 1
    /\ UNCHANGED <<sim, results, spc>>
    /\ GenerationIdle
    /\ UNCHANGED xvars

\* the outer loop is over and the dict is returned
ReturnAttempts ==
    /\ spc = "lengths"
    /\ si > Len(sim.password)
    /\ results' = [password |-> sim.password, attempts |-> attempts]
    /\ spc' = "returned"
    /\ UNCHANGED <<sim, attempts, si>>
    /\ GenerationIdle
    /\ UNCHANGED xvars

NextSimulate == Word \/ ReturnFound \/ Length \/ ReturnAttempts
SpecSimulate == InitSimulate /\ [][NextSimulate]_vars
\* every loop of the two functions is over a finite range and nothing waits
SpecSimulateFair == SpecSimulate /\ WF_vars(NextSimulate)

(* ------------------------------ the properties ------------------------ *)

\* C1: for every profile in which only the required attributes are set
\* (every optional attribute None, device_names empty), generate_passwords,
\* run on the whole catalog, returns, and the list it returns is not empty.
C1_NonEmptyForRequiredOnly ==
    \A r \in Runs :
        (Ended(r) /\ slice[r] = WholeCatalog /\ RequiredOnly(profile[r]))
            => (pc[r] = "done" /\ passwords[r] # <<>>)

C1_Witness ==
    \E r \in Runs : /\ pc[r] = "done"
                    /\ slice[r] = WholeCatalog
                    /\ RequiredOnly(profile[r])
                    /\ Len(passwords[r]) > Len(base_passwords[r])

\* C2: the list generate_passwords builds never holds the same string at
\* two positions, in any state of the fold: after every append, and in the
\* list returned.
C2_NoDuplicates ==
    \A r \in Runs :
        Cardinality({passwords[r][k] : k \in DOMAIN passwords[r]}) = Len(passwords[r])

\* a variant has just been taken that an earlier base candidate yields too,
\* so the test of line 771 has refused it
C2_Witness ==
    \E r \in Runs :
        /\ pc[r] = "variants"
        /\ vi[r] > 1
        /\ \E b \in 1..(bi[r] - 1) : \E t \in DOMAIN TRANSFORMATIONS :
              LET v == Call(TRANSFORMATIONS[t], base_passwords[r][b]) IN
              ~IsExc(v) /\ v.s = variants[r][vi[r] - 1]

C4_MoreThanBase ==
    \A r \in Runs :
        (pc[r] = "done" /\ base_passwords[r] # <<>>)
            => Len(passwords[r]) > Len(base_passwords[r])

C4_Witness ==
    \E r \in Runs : /\ pc[r] = "done"
                    /\ slice[r] = WholeCatalog
                    /\ Len(base_passwords[r]) > 1
                    /\ Len(passwords[r]) > 2 * Len(base_passwords[r])

\* C5: the empty string is in no list of the pipeline, in any state: not in
\* the base candidates, not in what apply_transformations builds and
\* returns, not in the final list.
C5_NoEmptyString ==
    \A r \in Runs : /\ ~In(<<>>, base_passwords[r])
                    /\ ~In(<<>>, transformed[r])
                    /\ ~In(<<>>, variants[r])
                    /\ ~In(<<>>, passwords[r])

\* generate_base_passwords has returned after a template whose substitution
\* result is the empty string
C5_Witness ==
    \E r \in Runs :
        /\ pc[r] = "done"
        /\ \E k \in slice[r][1]..slice[r][2] :
              Format(ALGORITHM_TEMPLATE[k], computed_data[r]) = EmptyStr

\* C7: no exception leaves compute_extra_fields, generate_base_passwords or
\* generate_passwords: no invocation ends by an exception.
C7_NoExceptionReachesCaller == \A r \in Runs : pc[r] # "raised"

\* an invocation has returned although a template of its slice raised, for a
\* profile with a name shorter than the slices taken of it
C7_Witness ==
    \E r \in Runs :
        /\ pc[r] = "done"
        /\ Len(profile[r]["first_name"].s) < 3
        /\ \E k \in slice[r][1]..slice[r][2] :
              IsExc(Format(ALGORITHM_TEMPLATE[k], computed_data[r]))

\* the (base candidate, transformation) pairs of invocation r in
\* lexicographic order, each with the value the transformation gives
Pairs(r) ==
    [n \in 1..(Len(base_passwords[r]) * Len(TRANSFORMATIONS)) |->
        Call(TRANSFORMATIONS[((n - 1) % Len(TRANSFORMATIONS)) + 1],
             base_passwords[r][((n - 1) \div Len(TRANSFORMATIONS)) + 1])]
\* the pairs that produce the string x
Producing(pairs, x) == {n \in DOMAIN pairs : pairs[n] = StrV(x)}
\* the place of the smallest pair that produces x
FirstPair(pairs, x) ==
    CHOOSE n \in Producing(pairs, x) : \A m \in Producing(pairs, x) : n <= m

\* C6: the list generate_passwords returns is in first-discovery order:
\* every string in it is produced by some (base candidate, transformation)
\* pair, and for two places i, j of the list, i is before j exactly when
\* the smallest pair producing the string at i is lexicographically smaller
\* than the smallest pair producing the string at j.
C6_FirstDiscoveryOrder ==
    \A r \in Runs :
        pc[r] = "done" =>
            LET pairs == Pairs(r)
                first == [k \in DOMAIN passwords[r] |->
                             IF Producing(pairs, passwords[r][k]) = {} THEN 0
                             ELSE FirstPair(pairs, passwords[r][k])]
            IN  /\ \A k \in DOMAIN first : first[k] > 0
                /\ \A i \in DOMAIN first : \A j \in DOMAIN first :
                      (i < j) <=> (first[i] < first[j])

\* a list has been returned in which a string stands that two base
\* candidates produce, after a string only the later of the two produces
C6_Witness ==
    \E r \in Runs :
        /\ pc[r] = "done"
        /\ LET pairs == Pairs(r) IN
           \E i \in DOMAIN passwords[r] : \E j \in DOMAIN passwords[r] :
              /\ i < j
              /\ \E n \in Producing(pairs, passwords[r][i]) :
                    /\ n > FirstPair(pairs, passwords[r][j])
                    /\ ((n - 1) \div Len(TRANSFORMATIONS))
                          > ((FirstPair(pairs, passwords[r][i]) - 1) \div Len(TRANSFORMATIONS))

\* the optional attributes the catalog refers to by their own name
AbsentNames == {"father_name", "mother_name", "spouse_name", "child_name", "pet_name",
                "gamer_tag"}
NoneText == <<"N","o","n","e">>
\* the template with the literal text None for the placeholders of names
WithNoneText(template, names) ==
    [n \in DOMAIN template |->
        IF template[n].k = "fld" /\ template[n].n \in names THEN L(NoneText) ELSE template[n]]
\* the attributes of AbsentNames that are absent from the profile of r and
\* that the template refers to
AbsentIn(r, template) ==
    {name \in AbsentNames \cap TemplateFields(template) : profile[r][name] = NoneV}

FirstNonEmptyHandle(p) ==
    IF Truthy(p["instagram_id"]) THEN p["instagram_id"]
    ELSE IF Truthy(p["facebook_id"]) THEN p["facebook_id"]
    ELSE IF Truthy(p["twitter_id"]) THEN p["twitter_id"]
    ELSE EmptyStr

\* C9: the field social_id that compute_extra_fields returns is the first
\* non-empty handle in the order instagram_id, facebook_id, twitter_id, and
\* the empty string when no handle is set.
C9_SocialIdFirstNonEmptyHandle ==
    \A r \in Runs :
        FieldsReturned(r) => computed_data[r]["social_id"] = FirstNonEmptyHandle(profile[r])

\* C10: the field set compute_extra_fields returns has a key for every field
\* name that is a placeholder of some entry of ALGORITHM_TEMPLATE.
C10_EveryPlaceholderHasAKey ==
    \A r \in Runs :
        FieldsReturned(r) => CatalogFields \subseteq DOMAIN computed_data[r]

\* the base candidate the invocation r is at
CurrentBase(r) == base_passwords[r][bi[r]]
\* the transformation apply_transformations has just called in r
JustCalled(r, transformation) ==
    /\ pc[r] = "transformations"
    /\ tj[r] > 1
    /\ TRANSFORMATIONS[tj[r] - 1] = transformation
\* the letters of the substitution table of leetspeak
LeetLetters == {"a", "A", "e", "E", "i", "I", "o", "O", "s", "S", "t", "T"}
HasLetterOf(s, letters) == \E k \in DOMAIN s : s[k] \in letters

\* C11: leetspeak, called by apply_transformations on a base candidate that
\* has none of the letters of its substitution table, returns normally and
\* returns the candidate unchanged.
C11_LeetspeakLeavesOtherStrings ==
    \A r \in Runs :
        (JustCalled(r, "leetspeak") /\ ~HasLetterOf(CurrentBase(r), LeetLetters))
            => Call("leetspeak", CurrentBase(r)) = StrV(CurrentBase(r))

\* a->4, e->3, i->1, o->0, s->5, all replaced in one pass
LeetForm(s) ==
    [k \in DOMAIN s |-> CASE s[k] = "a" -> "4" [] s[k] = "e" -> "3" [] s[k] = "i" -> "1"
                          [] s[k] = "o" -> "0" [] s[k] = "s" -> "5" [] OTHER -> s[k]]

\* C12: the variants apply_transformations returns for a base candidate
\* that has one of the letters a, e, i, o, s include its leetspeak form.
C12_VariantsIncludeLeetForm ==
    \A r \in Runs :
        (pc[r] = "variants" /\ HasLetterOf(CurrentBase(r), {"a", "e", "i", "o", "s"}))
            => In(LeetForm(CurrentBase(r)), variants[r])

\* C13: for the profile Ann Lee, 3/9/2005, phone 1234567890, on the whole
\* catalog, the list generate_base_passwords returns holds AnnLee, Lee2005,
\* Ann09/03 and AL05, and the list generate_passwords returns holds
\* AnnLee123, !AnnLee and eeLnnA.
C13_AnnLeeExample ==
    \A r \in Runs :
        (profile[r] = Ann /\ slice[r] = WholeCatalog) =>
            /\ BaseReturned(r) =>
                  /\ In(<<"A","n","n","L","e","e">>, base_passwords[r])
                  /\ In(<<"L","e","e","2","0","0","5">>, base_passwords[r])
                  /\ In(<<"A","n","n","0","9","/","0","3">>, base_passwords[r])
                  /\ In(<<"A","L","0","5">>, base_passwords[r])
            /\ pc[r] = "done" =>
                  /\ In(<<"A","n","n","L","e","e","1","2","3">>, passwords[r])
                  /\ In(<<"!","A","n","n","L","e","e">>, passwords[r])
                  /\ In(<<"e","e","L","n","n","A">>, passwords[r])

\* generate_base_passwords has returned the four strings for Ann and
\* generate_passwords has appended the three to the list it goes on to return
C13_Witness ==
    \E r \in Runs :
        /\ BaseReturned(r)
        /\ profile[r] = Ann
        /\ slice[r] = WholeCatalog
        /\ In(<<"L","e","e","2","0","0","5">>, base_passwords[r])
        /\ In(<<"A","n","n","0","9","/","0","3">>, base_passwords[r])
        /\ In(<<"A","L","0","5">>, base_passwords[r])
        /\ In(<<"A","n","n","L","e","e","1","2","3">>, passwords[r])
        /\ In(<<"!","A","n","n","L","e","e">>, passwords[r])
        /\ In(<<"e","e","L","n","n","A">>, passwords[r])

C15_BaseNonEmpty ==
    \A r \in Runs :
        slice[r] = WholeCatalog =>
            /\ pc[r] # "raised"
            /\ BaseReturned(r) => base_passwords[r] # <<>>

\* generate_base_passwords has just returned, for a profile with empty names
\* and an empty phone number
C15_Witness ==
    \E r \in Runs :
        /\ pc[r] = "bases"
        /\ bi[r] = 1
        /\ slice[r] = WholeCatalog
        /\ profile[r]["first_name"] = EmptyStr
        /\ profile[r]["phone_number"] = EmptyStr
        /\ Len(base_passwords[r]) > 1

\* the digest of a password under the algorithm a hash type names
DigestOf(hash_type, password) ==
    IF hash_type \in {"ntlm", "lm"} THEN Hexdigest("md4", password, "utf-16le")
    ELSE Hexdigest(hash_type, password, "utf-8")
\* one line for each password from the n-th on, in list order: the tag, the
\* digest, a colon, the password
RECURSIVE LinesFrom(_, _, _, _)
LinesFrom(tag, hash_type, list, n) ==
    IF n > Len(list) THEN <<>>
    ELSE Text(tag) \o <<DigestOf(hash_type, list[n])>> \o Text(<<":">>) \o Text(list[n])
             \o Text(<<"\n">>) \o LinesFrom(tag, hash_type, list, n + 1)
ExportEnded == xpc \in {"closed", "raised"}

\* C16: a call of export_hashcat_format with one of the hash types
\* generate_hashes knows returns, and the file then holds one line for each
\* password, in list order, of the form <digest of the password>:<password>.
C16_HashcatOneLinePerPassword ==
    (call.fn = "export_hashcat_format"
        /\ call.hash_type \in {"md5", "sha1", "sha256", "sha512", "ntlm", "lm"}
        /\ ExportEnded)
        => (xpc = "closed" /\ f = LinesFrom(<<>>, call.hash_type, call.passwords, 1))

\* the same, on a build whose hashlib provides md4
HashcatOneLinePerPasswordWithMd4 == md4 => C16_HashcatOneLinePerPassword

\* the name of the algorithm in the tag of a line
AlgoTag(hash_type) ==
    CASE hash_type = "md5" -> <<"$","M","D","5","$">>
      [] hash_type = "sha1" -> <<"$","S","H","A","1","$">>
      [] hash_type = "sha256" -> <<"$","S","H","A","2","5","6","$">>
      [] hash_type = "sha512" -> <<"$","S","H","A","5","1","2","$">>
      [] hash_type = "ntlm" -> <<"$","N","T","L","M","$">>

\* C17: on a build whose hashlib provides md4, a call of export_john_format
\* with md5, sha1, sha256, sha512 or ntlm returns, and the file then holds one
\* line for each password, in list order, of the form
\* $ALGO$<digest>:<password>, ALGO naming the hash type.
C17_JohnOneLinePerPassword ==
    (md4 /\ call.fn = "export_john_format"
        /\ call.hash_type \in {"md5", "sha1", "sha256", "sha512", "ntlm"}
        /\ ExportEnded)
        => (xpc = "closed"
            /\ f = LinesFrom(AlgoTag(call.hash_type), call.hash_type, call.passwords, 1))

\* the same for sha256 alone
JohnSha256OneLinePerPassword ==
    (md4 /\ call.fn = "export_john_format" /\ call.hash_type = "sha256" /\ ExportEnded)
        => (xpc = "closed"
            /\ f = LinesFrom(AlgoTag(call.hash_type), call.hash_type, call.passwords, 1))

\* C18: with the steps of two invocations interleaved in any order, no
\* invocation raises, every variant an invocation has gone through is in
\* its own list, whatever the other has appended, and the list it returns
\* is the list an invocation running alone returns for its profile.
C18_InterleavedAsAlone ==
    \A r \in Runs :
        /\ pc[r] # "raised"
        /\ pc[r] = "variants" =>
              \A k \in 1..(vi[r] - 1) : In(variants[r][k], passwords[r])
        /\ pc[r] = "done" =>
              Return(passwords[r]) = generate_passwords(profile[r], slice[r])

\* both invocations are in their loop over the variants, each with strings
\* appended, a string of the one being a string of the other
C18_Witness ==
    /\ pc[1] = "variants"
    /\ pc[2] = "variants"
    /\ profile[1] # profile[2]
    /\ \E k \in DOMAIN passwords[1] : In(passwords[1][k], passwords[2])

\* the templates generate_base_passwords has gone through in invocation r
Evaluated(r) ==
    IF pc[r] = "templates" THEN slice[r][1]..(ti[r] - 1)
    ELSE IF BaseReturned(r) THEN slice[r][1]..slice[r][2]
    ELSE {}
\* the templates among them that render the string x
Rendering(r, x) ==
    {k \in Evaluated(r) : Format(ALGORITHM_TEMPLATE[k], computed_data[r]) = StrV(x)}
LowestOf(S) == CHOOSE k \in S : \A j \in S : k <= j

\* C19: at every step of generate_base_passwords and in the list it
\* returns, no string stands twice, every string is rendered by a template
\* gone through, every non-empty string such a template renders is in the
\* list, and the strings stand in the order of the first templates that
\* render them.
C19_BaseOrderedByFirstTemplate ==
    \A r \in Runs :
        FieldsReturned(r) =>
            LET list == base_passwords[r]
                first == [n \in DOMAIN list |->
                             IF Rendering(r, list[n]) = {} THEN 0
                             ELSE LowestOf(Rendering(r, list[n]))]
            IN  /\ \A n \in DOMAIN list : first[n] > 0
                /\ \A i \in DOMAIN list : \A j \in DOMAIN list :
                      (i < j) <=> (first[i] < first[j])
                /\ \A k \in Evaluated(r) :
                      LET formatted == Format(ALGORITHM_TEMPLATE[k], computed_data[r]) IN
                      (~IsExc(formatted) /\ formatted.s # <<>>) => In(formatted.s, list)

\* the list returned holds two strings, the first of them rendered again by
\* a template after the one that first renders the second
C19_Witness ==
    \E r \in Runs :
        /\ pc[r] = "bases"
        /\ Len(base_passwords[r]) = 2
        /\ \E k \in Rendering(r, base_passwords[r][1]) :
              k > LowestOf(Rendering(r, base_passwords[r][2]))

\* the templates of invocation r's slice that refer to a field name that
\* is not a key of the derived fields
Absent(r) ==
    {k \in slice[r][1]..slice[r][2] :
        \E name \in TemplateFields(ALGORITHM_TEMPLATE[k]) : name \notin DOMAIN computed_data[r]}
\* the base list of invocation r's slice with the template k left out
BaseWithout(r, k) ==
    BaseLoop(computed_data[r], k + 1, slice[r][2],
             BaseLoop(computed_data[r], slice[r][1], k - 1, <<>>).value)

\* C20: no invocation ends by an exception; the iteration of a template
\* that refers to an absent field name leaves the base list as the
\* templates before it made it, the loop goes on, and the list returned is
\* the list of the same slice without that template.
C20_AbsentFieldTemplateSkipped ==
    \A r \in Runs :
        /\ pc[r] # "raised"
        /\ \A k \in (IF FieldsReturned(r) THEN Absent(r) ELSE {}) :
              /\ (pc[r] = "templates" /\ ti[r] = k + 1) =>
                    Return(base_passwords[r]) =
                        BaseLoop(computed_data[r], slice[r][1], k - 1, <<>>)
              /\ BaseReturned(r) => Return(base_passwords[r]) = BaseWithout(r, k)

\* the list is returned with a string of a template before the one that
\* refers to father_name_short_3 and a string of a template after it
C20_Witness ==
    \E r \in Runs :
        /\ pc[r] = "bases"
        /\ SkippedAt \in Absent(r)
        /\ Format(ALGORITHM_TEMPLATE[SkippedAt], computed_data[r]) = Exc("KeyError")
        /\ \E i \in DOMAIN base_passwords[r] :
              Rendering(r, base_passwords[r][i]) = {SkippedAt - 1}
        /\ \E j \in DOMAIN base_passwords[r] :
              Rendering(r, base_passwords[r][j]) = {SkippedAt + 1}

\* the t-th transformation raises for the string b
Raises(t, b) == IsExc(Call(TRANSFORMATIONS[t], b))
\* the t-th transformation returns a non-empty string for the string b
Yields(t, b) == ~Raises(t, b) /\ Call(TRANSFORMATIONS[t], b).s # <<>>

\* C21: no invocation ends by an exception of a transformation; in
\* apply_transformations the string of every transformation gone through
\* that returned a non-empty string is in the list, whether a transformation
\* before or after it raised; the list it returns holds the string of every
\* such transformation; and the list generate_passwords returns holds, for
\* every base candidate, the string of every such transformation.
C21_RaisingTransformationSkippedAlone ==
    \A r \in Runs :
        /\ pc[r] # "raised"
        /\ pc[r] = "transformations" =>
              \A t \in 1..(tj[r] - 1) :
                  Yields(t, CurrentBase(r)) =>
                      In(Call(TRANSFORMATIONS[t], CurrentBase(r)).s, transformed[r])
        /\ pc[r] = "variants" =>
              \A t \in DOMAIN TRANSFORMATIONS :
                  Yields(t, CurrentBase(r)) =>
                      In(Call(TRANSFORMATIONS[t], CurrentBase(r)).s, variants[r])
        /\ pc[r] = "done" =>
              \A b \in DOMAIN base_passwords[r] : \A t \in DOMAIN TRANSFORMATIONS :
                  Yields(t, base_passwords[r][b]) =>
                      In(Call(TRANSFORMATIONS[t], base_passwords[r][b]).s, passwords[r])

\* a list is returned for two base candidates or more, a transformation
\* having raised for the first of them between two that returned strings,
\* and the strings of both and a variant of the second candidate are in it
C21_Witness ==
    \E r \in Runs :
        /\ pc[r] = "done"
        /\ Len(base_passwords[r]) >= 2
        /\ \E t \in DOMAIN TRANSFORMATIONS :
              /\ Raises(t, base_passwords[r][1])
              /\ \E u \in 1..(t - 1) : \E w \in (t + 1)..Len(TRANSFORMATIONS) :
                    /\ Yields(u, base_passwords[r][1])
                    /\ Yields(w, base_passwords[r][1])
                    /\ In(Call(TRANSFORMATIONS[u], base_passwords[r][1]).s, passwords[r])
                    /\ In(Call(TRANSFORMATIONS[w], base_passwords[r][1]).s, passwords[r])
        /\ In(Call("append_123", base_passwords[r][2]).s, passwords[r])

\* apply_transformations has just returned to invocation r
JustReturned(r) == pc[r] = "variants" /\ vi[r] = 1
\* what each transformation gives for the string b
ResultsFor(b) == [t \in DOMAIN TRANSFORMATIONS |-> Call(TRANSFORMATIONS[t], b)]
\* the transformations that return the string x, result being ResultsFor
Yielding(result, x) == {t \in DOMAIN result : result[t] = StrV(x)}

\* C22: the list apply_transformations returns for a base candidate begins
\* with the candidate itself, every string in it is returned by some
\* transformation, and for two places i, j of the list, i is before j
\* exactly when the first transformation returning the string at i is
\* before the first transformation returning the string at j (so that no
\* string stands twice).
C22_VariantsInTransformationOrder ==
    \A r \in Runs :
        JustReturned(r) =>
            LET c == CurrentBase(r)
                result == ResultsFor(c)
                first == [n \in DOMAIN variants[r] |->
                             IF Yielding(result, variants[r][n]) = {} THEN 0
                             ELSE LowestOf(Yielding(result, variants[r][n]))]
            IN  /\ c # <<>>
                /\ variants[r] # <<>>
                /\ variants[r][1] = c
                /\ \A n \in DOMAIN first : first[n] > 0
                /\ \A i \in DOMAIN first : \A j \in DOMAIN first :
                      (i < j) <=> (first[i] < first[j])

\* a list is returned in which a string stands that a second transformation
\* returns too, with the string of a transformation between the two after it
C22_Witness ==
    \E r \in Runs :
        /\ JustReturned(r)
        /\ LET result == ResultsFor(CurrentBase(r)) IN
           \E i \in DOMAIN variants[r] : \E j \in DOMAIN variants[r] :
              /\ i < j
              /\ \E t \in Yielding(result, variants[r][i]) :
                    t > LowestOf(Yielding(result, variants[r][j]))

\* C23: called with the empty string or with a string of one character, no
\* transformation of the list raises IndexError; capitalize_first and
\* double_last_char return the empty string for the empty string, and for a
\* string of one character its upper-case form and the character twice.
C23_NoIndexErrorOnShortStrings ==
    (spc \in {"returned", "raised"} /\ Len(sim.password) <= 1) =>
        /\ results # Exc("IndexError")
        /\ (sim.fn \in {"capitalize_first", "double_last_char"} /\ sim.password = <<>>) =>
              results = StrV(<<>>)
        /\ (sim.fn = "capitalize_first" /\ Len(sim.password) = 1) =>
              results = StrV(<<UpperChar(sim.password[1])>>)
        /\ (sim.fn = "double_last_char" /\ Len(sim.password) = 1) =>
              results = StrV(<<sim.password[1], sim.password[1]>>)

\* double_last_char has returned for the empty string
C23_Witness ==
    /\ spc = "returned"
    /\ sim.fn = "double_last_char"
    /\ sim.password = <<>>

\* C24: in the fields compute_extra_fields returns, for a phone number of
\* 10 characters or more phone_last4 is its last 4 characters, phone_first3
\* its first 3 and phone_middle its 4th to 6th; for a phone number of 1 to 9
\* characters the three fields are the whole phone number.
C24_PhoneParts ==
    \A r \in Runs :
        FieldsReturned(r) =>
            LET number == profile[r]["phone_number"].s
                n == Len(number)
                data == computed_data[r]
            IN  /\ n >= 10 =>
                      /\ data["phone_last4"] = StrV(SubSeq(number, n - 3, n))
                      /\ data["phone_first3"] = StrV(SubSeq(number, 1, 3))
                      /\ data["phone_middle"] = StrV(SubSeq(number, 4, 6))
                /\ (n >= 1 /\ n < 10) =>
                      /\ data["phone_last4"] = StrV(number)
                      /\ data["phone_first3"] = StrV(number)
                      /\ data["phone_middle"] = StrV(number)

\* the fields are returned for a phone number of 9 characters, with the
\* whole of it as phone_middle
C24_Witness ==
    \E r \in Runs :
        /\ FieldsReturned(r)
        /\ Len(profile[r]["phone_number"].s) = 9
        /\ computed_data[r]["phone_middle"] = StrV(PhoneOf(9))

\* the base candidates whose variants invocation r has begun to append
Begun(r) == IF pc[r] \in {"transformations", "variants"} THEN bi[r] ELSE bi[r] - 1

\* C25: in every state, so after every append: base_passwords is no longer
\* than the number of templates gone through, hence than ALGORITHM_TEMPLATE;
\* the list apply_transformations builds or has returned is no longer than
\* TRANSFORMATIONS; and passwords is no longer than the number of base
\* candidates begun times the length of TRANSFORMATIONS, hence than the
\* number of base candidates times that length.
C25_SizesBoundedByTables ==
    \A r \in Runs :
        /\ Len(base_passwords[r]) <= Len(ALGORITHM_TEMPLATE)
        /\ Len(base_passwords[r]) <= Cardinality(Evaluated(r))
        /\ Len(transformed[r]) <= Len(TRANSFORMATIONS)
        /\ Len(variants[r]) <= Len(TRANSFORMATIONS)
        /\ Len(passwords[r]) <= Begun(r) * Len(TRANSFORMATIONS)
        /\ Len(passwords[r]) <= Len(base_passwords[r]) * Len(TRANSFORMATIONS)

\* on the whole catalog, the variants of more than a quarter of the
\* templates' number of base candidates have been appended
C25_Witness ==
    \E r \in Runs :
        /\ pc[r] = "bases"
        /\ slice[r] = WholeCatalog
        /\ 4 * Begun(r) > Len(ALGORITHM_TEMPLATE)
        /\ Len(passwords[r]) > Len(ALGORITHM_TEMPLATE)

\* the first-occurrence, order-preserving deduplication of the strings of
\* pairs, the pairs that raised or gave the empty string left out
FlatDeduplicated(pairs) ==
    LET Appended(n) == /\ ~IsExc(pairs[n])
                       /\ pairs[n].s # <<>>
                       /\ \A m \in 1..(n - 1) : pairs[m] # pairs[n]
        kept == SelectSeq([n \in DOMAIN pairs |-> n], Appended)
    IN  [k \in 1..Len(kept) |-> pairs[kept[k]].s]

\* C26: the list generate_passwords returns is the deduplication, in one
\* pass, of the results of every transformation for every base candidate,
\* taken candidate by candidate and transformation by transformation.
C26_TwoLevelsAsOne ==
    \A r \in Runs : pc[r] = "done" => passwords[r] = FlatDeduplicated(Pairs(r))

\* a list is returned for which a transformation gives a base candidate a
\* string an earlier transformation gave it, and gives a base candidate a
\* string an earlier base candidate was given
C26_Witness ==
    \E r \in Runs :
        /\ pc[r] = "done"
        /\ LET pairs == Pairs(r)
               CandidateOf(n) == (n - 1) \div Len(TRANSFORMATIONS)
           IN  /\ \E n \in DOMAIN pairs : \E m \in 1..(n - 1) :
                     /\ pairs[n] = pairs[m] /\ ~IsExc(pairs[n])
                     /\ CandidateOf(m) = CandidateOf(n)
               /\ \E n \in DOMAIN pairs : \E m \in 1..(n - 1) :
                     /\ pairs[n] = pairs[m] /\ ~IsExc(pairs[n])
                     /\ CandidateOf(m) < CandidateOf(n)
                     /\ \A k \in 1..(n - 1) :
                           pairs[k] = pairs[n] => CandidateOf(k) < CandidateOf(n)

\* C27: every string generate_base_passwords returned is in the list
\* generate_passwords returns, and that list begins with the first of them.
C27_BaseCandidatesInFinalList ==
    \A r \in Runs :
        pc[r] = "done" =>
            /\ \A b \in DOMAIN base_passwords[r] : In(base_passwords[r][b], passwords[r])
            /\ base_passwords[r] # <<>> => passwords[r][1] = base_passwords[r][1]

\* a list is returned for two base candidates or more, the second of them
\* standing after every variant of the first
C27_Witness ==
    \E r \in Runs :
        /\ pc[r] = "done"
        /\ Len(base_passwords[r]) >= 2
        /\ \E k \in DOMAIN passwords[r] :
              /\ passwords[r][k] = base_passwords[r][2]
              /\ k > Len(apply_transformations(base_passwords[r][1]))

\* simulate_dictionary_attack has returned
DictionaryReturned == spc = "returned" /\ sim.fn = "simulate_dictionary_attack"
\* the place of the first word of the list that is x
FirstMatch(wordlist, x) == LowestOf({k \in DOMAIN wordlist : wordlist[k] = x})

\* C28: the dict simulate_dictionary_attack returns has found = true exactly
\* when the password is a word of the wordlist, and attempts = the place of
\* the first such word, or the length of the wordlist when there is none.
C28_FoundIffInWordlist ==
    DictionaryReturned =>
        /\ results.found = In(sim.password, sim.wordlist)
        /\ results.attempts = IF In(sim.password, sim.wordlist)
                              THEN FirstMatch(sim.wordlist, sim.password)
                              ELSE Len(sim.wordlist)

\* the part of it that is about attempts
DictionaryAttemptsAtFirstMatch ==
    DictionaryReturned =>
        results.attempts = IF In(sim.password, sim.wordlist)
                           THEN FirstMatch(sim.wordlist, sim.password)
                           ELSE Len(sim.wordlist)

\* simulate_brute_force has returned
BruteForceReturned == spc = "returned" /\ sim.fn = "simulate_brute_force"

\* C29: the attempts simulate_brute_force reports are not more than
\* max_attempts.
C29_AttemptsWithinLimit ==
    BruteForceReturned => results.attempts <= max_attempts

\* every call of simulate_brute_force returns (under SpecSimulateFair)
BruteForceTerminates ==
    (sim.fn = "simulate_brute_force") ~> (spc = "returned")

\* the entries of the catalog that are the same template as an earlier entry
Repeated ==
    {k \in DOMAIN ALGORITHM_TEMPLATE :
        \E j \in 1..(k - 1) : ALGORITHM_TEMPLATE[j] = ALGORITHM_TEMPLATE[k]}
\* the entries that refer to a field name compute_extra_fields never sets
NeverRendered ==
    {k \in DOMAIN ALGORITHM_TEMPLATE :
        \E name \in TemplateFields(ALGORITHM_TEMPLATE[k]) :
            /\ name \notin RequiredFields \cup OptionalFields
            /\ \A n \in DOMAIN DerivedOrder : DerivedOrder[n] # name}
\* len(ALGORITHM_TEMPLATE) * len(TRANSFORMATIONS), the figure of help_menu
total_potential == Len(ALGORITHM_TEMPLATE) * Len(TRANSFORMATIONS)

\* C30: in every state base_passwords is no longer than the number of the
\* templates gone through that neither repeat an earlier entry nor refer to
\* a field that is never set; the catalog has such entries, so that the
\* number of base candidates is smaller than the length of the catalog and
\* the length of passwords smaller than the figure shown.
C30_FigureNeverReached ==
    /\ Repeated # {}
    /\ NeverRendered # {}
    /\ \A r \in Runs :
          /\ Len(base_passwords[r]) <= Cardinality(Evaluated(r) \ (Repeated \cup NeverRendered))
          /\ Len(base_passwords[r]) < Len(ALGORITHM_TEMPLATE)
          /\ Len(passwords[r]) < total_potential

\* generate_base_passwords has returned on the whole catalog, with a base
\* candidate for more than four templates in five, and the variants of the
\* first of them are appended
C30_Witness ==
    \E r \in Runs :
        /\ pc[r] = "bases"
        /\ bi[r] = 2
        /\ slice[r] = WholeCatalog
        /\ 5 * Len(base_passwords[r]) > 4 * Len(ALGORITHM_TEMPLATE)
        /\ Len(passwords[r]) > 1

====
